---- MODULE Spec2Model ----
(***************************************************************************)
(* RS485 packet protocol engine of the Enersion controller firmware        *)
(* (SW_Controller_ANA/Core/Src/rs485_protocol.c): CRC16 codec, frame       *)
(* serialisation in RS485_SendPacket, the byte-stream framer               *)
(* RS485_ProcessReceivedByte, and the dispatcher RS485_ProcessPacket with  *)
(* the built-in command handlers.                                          *)
(*                                                                         *)
(* C arrays are 0-based, TLA+ sequences 1-based: buffer[i] in the source   *)
(* is buffer[i+1] here.                                                    *)
(***************************************************************************)
EXTENDS Integers, Sequences, FiniteSets, TLC

(***************************************************************************)
(* Program constants                                                       *)
(***************************************************************************)
RS485_START_BYTE == 170
RS485_END_BYTE == 85
RS485_MAX_PACKET_SIZE == 256
MAX_DATA_LENGTH == 250
FRAME_TIMEOUT_MS == 500
CRC_INIT == 65535
CRC_POLY == 40961

RS485_ADDR_BROADCAST == 0
RS485_ADDR_CONTROLLER_420 == 1
RS485_ADDR_CONTROLLER_DIO == 2
RS485_ADDR_CONTROLLER_OUT == 3
RS485_ADDR_GUI == 16

CMD_PING == 1
CMD_PING_RESPONSE == 2
CMD_GET_VERSION == 3
CMD_VERSION_RESPONSE == 4
CMD_HEARTBEAT == 5
CMD_HEARTBEAT_RESPONSE == 6
CMD_GET_STATUS == 16
CMD_STATUS_RESPONSE == 17
CMD_READ_DI == 32
CMD_WRITE_DO == 48
CMD_DO_RESPONSE == 49
CMD_READ_DO == 50
CMD_ERROR_RESPONSE == 255

RS485_ERR_INVALID_CHECKSUM == 1
RS485_ERR_INVALID_COMMAND == 3

FW_VERSION_MAJOR == 1
FW_VERSION_MINOR == 0
FW_VERSION_PATCH == 0
FW_BUILD_NUMBER == 1

HEALTH_INIT == 100

Byte == 0..255

\* digital_output_handler.h: the outputs, packed eight to a byte
NUM_DIGITAL_OUTPUTS == 56
OutputBytes == (NUM_DIGITAL_OUTPUTS + 7) \div 8
U16 == 65536

(***************************************************************************)
(* uint32_t millisecond tick (HAL_GetTick): a pair <<high 16 bits, low 16  *)
(* bits>>, since the full 32-bit range is kept so that wrap-around is      *)
(* arithmetic modulo 2^32                                                  *)
(***************************************************************************)
Tick32(hi, lo) == <<hi, lo>>

\* (a + ms) modulo 2^32, for 0 <= ms < 2^16
TickAdd(a, ms) ==
    LET lo == a[2] + ms
    IN  <<(a[1] + (lo \div U16)) % U16, lo % U16>>

\* a subtraction that yields 0 instead of wrapping when a is below b
TickSub_NoWrap(a, b) ==
    IF a[1] < b[1] \/ (a[1] = b[1] /\ a[2] < b[2]) THEN <<0, 0>>
    ELSE <<a[1] - b[1] - (IF a[2] < b[2] THEN 1 ELSE 0),
           (a[2] - b[2] + U16) % U16>>

\* (a - b) modulo 2^32: the unsigned subtraction now - lastByteTime
TickSub(a, b) ==
    LET borrow == IF a[2] < b[2] THEN 1 ELSE 0
    IN  <<(a[1] - b[1] - borrow + U16) % U16, (a[2] - b[2] + U16) % U16>>

\* a / 1000: since 65536 = 65 * 1000 + 536, this is
\* 65 * hi + (536 * hi + lo) / 1000
TickSeconds(a) == 65 * a[1] + (536 * a[1] + a[2]) \div 1000

\* d > ms as unsigned 32-bit comparison, for 0 <= ms < 2^16
TickGreater(d, ms) == d[1] > 0 \/ d[2] > ms

(***************************************************************************)
(* Bit operations of the C source on unsigned integers                     *)
(***************************************************************************)
\* a ^ b on 4-bit operands, as a table: entry 16 * a + b + 1 is a ^ b
\* (row a, column b)
XorNibble == <<
     0,  1,  2,  3,  4,  5,  6,  7,  8,  9, 10, 11, 12, 13, 14, 15,
     1,  0,  3,  2,  5,  4,  7,  6,  9,  8, 11, 10, 13, 12, 15, 14,
     2,  3,  0,  1,  6,  7,  4,  5, 10, 11,  8,  9, 14, 15, 12, 13,
     3,  2,  1,  0,  7,  6,  5,  4, 11, 10,  9,  8, 15, 14, 13, 12,
     4,  5,  6,  7,  0,  1,  2,  3, 12, 13, 14, 15,  8,  9, 10, 11,
     5,  4,  7,  6,  1,  0,  3,  2, 13, 12, 15, 14,  9,  8, 11, 10,
     6,  7,  4,  5,  2,  3,  0,  1, 14, 15, 12, 13, 10, 11,  8,  9,
     7,  6,  5,  4,  3,  2,  1,  0, 15, 14, 13, 12, 11, 10,  9,  8,
     8,  9, 10, 11, 12, 13, 14, 15,  0,  1,  2,  3,  4,  5,  6,  7,
     9,  8, 11, 10, 13, 12, 15, 14,  1,  0,  3,  2,  5,  4,  7,  6,
    10, 11,  8,  9, 14, 15, 12, 13,  2,  3,  0,  1,  6,  7,  4,  5,
    11, 10,  9,  8, 15, 14, 13, 12,  3,  2,  1,  0,  7,  6,  5,  4,
    12, 13, 14, 15,  8,  9, 10, 11,  4,  5,  6,  7,  0,  1,  2,  3,
    13, 12, 15, 14,  9,  8, 11, 10,  5,  4,  7,  6,  1,  0,  3,  2,
    14, 15, 12, 13, 10, 11,  8,  9,  6,  7,  4,  5,  2,  3,  0,  1,
    15, 14, 13, 12, 11, 10,  9,  8,  7,  6,  5,  4,  3,  2,  1,  0 >>

\* a ^ b on operands of at most 16 bits, nibble by nibble
Xor16(a, b) ==
    XorNibble[16 * (a % 16) + (b % 16) + 1]
    + 16 * XorNibble[16 * ((a \div 16) % 16) + ((b \div 16) % 16) + 1]
    + 256 * XorNibble[16 * ((a \div 256) % 16) + ((b \div 256) % 16) + 1]
    + 4096 * XorNibble[16 * ((a \div 4096) % 16) + ((b \div 4096) % 16) + 1]

\* byte ^ (1 << bit)
FlipBit(byte, bit) == Xor16(byte, 2^bit)

\* the low byte and the high byte of a 16-bit value
LowByte(w) == w % 256
HighByte(w) == (w \div 256) % 256

(***************************************************************************)
(* CRC16 codec: RS485_CalculateCRC                                         *)
(***************************************************************************)
\* one pass of the inner loop body: if (crc & 1) crc = (crc >> 1) ^ 0xA001; else crc >>= 1
CrcShift_Ccitt(crc) ==
    IF crc % 2 = 1 THEN Xor16(crc \div 2, 33800) ELSE crc \div 2
CrcShift(crc) ==
    IF crc % 2 = 1 THEN Xor16(crc \div 2, CRC_POLY) ELSE crc \div 2

\* for (j = 0; j < 8; j++) ...
RECURSIVE CrcBits(_, _)
CrcBits(crc, j) == IF j = 0 THEN crc ELSE CrcBits(CrcShift(crc), j - 1)

\* the eight shifts of the inner loop, as a function of the 16-bit value
\* they start from
CrcInner == [x \in 0..(U16 - 1) |-> CrcBits(x, 8)]

\* the body of the outer loop for one data byte: crc ^= data[i]; 8 shifts
CrcByte(crc, byte) == CrcInner[Xor16(crc, byte)]

\* for (i = lo; i <= hi; i++) ...: the outer loop over data[lo..hi], in index
\* order, entered with crc. The range is split in halves, and the value
\* after the first half is passed on as a function argument, only to keep
\* the evaluation shallow: the bytes are folded left to right as in the
\* source.
RECURSIVE CrcRange(_, _, _, _)
CrcRange(data, lo, hi, crc) ==
    IF lo > hi THEN crc
    ELSE IF lo = hi THEN CrcByte(crc, data[lo])
    ELSE LET mid == (lo + hi) \div 2
             left == CrcRange(data, lo, mid, crc)
         IN  [c \in {left} |-> CrcRange(data, mid + 1, hi, c)][left]

RS485_CalculateCRC(data) == CrcRange(data, 1, Len(data), CRC_INIT)


(***************************************************************************)
(* State                                                                   *)
(***************************************************************************)
VARIABLES
    myAddress,        \* static uint8_t myAddress
    commandHandlers,  \* static CommandHandler commandHandlers[256]
    status,           \* static RS485_Status_t status
    txInProgress,     \* static volatile uint8_t txInProgress
    comPin,           \* RS485 direction pin (driver enable)
    rxneIT,           \* UART receive interrupt enabled
    packetBuffer,     \* ProcessReceivedByte: packetBuffer[0 .. packetIndex-1]
    packetIndex,      \* ProcessReceivedByte: static uint16_t packetIndex
    expectedLength,   \* ProcessReceivedByte: static uint8_t expectedLength
    lastByteTime,     \* ProcessReceivedByte: static uint32_t lastByteTime
    tick,             \* HAL_GetTick()
    rxLine,           \* bytes on the bus not yet received
    sent,             \* what the bus side put on the line (the input)
    txLog,            \* frames handed to HAL_UART_Transmit since the input
                      \* was put on the line, each with the HAL result
    frameLog,         \* the buffers for which the completion test of
                      \* RS485_ProcessReceivedByte was true since then
    dispatchLog,      \* the packets RS485_ProcessPacket built and looked up
                      \* in commandHandlers since then, each with the
                      \* handler it called (NoHandler if none)
    base,             \* status when the input was put on the line
    outputStates,     \* controller OUT: static uint8_t outputStates[56],
                      \* kept packed as DigitalOutput_GetAll packs it
    regLog,           \* the RS485_RegisterCommandHandler calls made since
                      \* RS485_Init, as <<cmd, handler>>
    txJob,            \* the RS485_SendPacket call of the application (main
                      \* context): its arguments, txBuffer, the result of
                      \* HAL_UART_Transmit and where the call stands
    opLog,            \* the statements of the send sequence that call has
                      \* executed, each with the state it left
    tcWait,           \* the context that spins in the wait for the TC flag
                      \* of a transmitter that never completes, if any
    crcData,          \* codec check: the bytes handed to RS485_CalculateCRC
    crcResult,        \* codec check: the value it returned (NoCrc before)
    peer,             \* shared bus: the second node, with the fields of the
                      \* first (NoPeer when the node is alone with its master)
    reply,            \* shared bus: the calls of the reply the node is
                      \* transmitting
    castStatus,       \* struct-cast variant: static RS485_Status_t status
    castBuf255,       \* struct-cast variant: packetBuffer[255], the byte the
                      \* low half of packet->checksum is read from
    castSeen,         \* variant comparison: the inputs given to both
                      \* variants so far
    anaOut,           \* variant comparison: what the explicit-serialisation
                      \* variant did with the last input (frames handed to
                      \* the UART, decision)
    castOut           \* the same for the struct-cast variant

nodeVars == <<myAddress, commandHandlers, status, txInProgress, comPin, rxneIT,
              packetBuffer, packetIndex, expectedLength, lastByteTime,
              outputStates>>
\* the node and its bus
mainVars == <<myAddress, commandHandlers, status, txInProgress, comPin, rxneIT,
              packetBuffer, packetIndex, expectedLength, lastByteTime,
              outputStates, tick, rxLine, sent, txLog, frameLog, dispatchLog,
              base, regLog, txJob, opLog, tcWait>>
\* what the actions of the node leave alone
codecVars == <<crcData, crcResult>>
busVars == <<peer, reply>>
castVars == <<castStatus, castBuf255, castSeen, anaOut, castOut>>
otherVars == <<codecVars, busVars, castVars>>
vars == <<mainVars, otherVars>>

NoCrc == -1

\* the results HAL_UART_Transmit can return
HalResults == {"HAL_OK", "HAL_ERROR", "HAL_BUSY", "HAL_TIMEOUT"}

\* the outcomes of lines 150-154 together: a result of HAL_UART_Transmit
\* with the TC flag set at some read of the loop of line 154, or
\* HAL_TIMEOUT from a transmitter that has stopped shifting, whose TC flag
\* stays RESET at every read
TcNever == "TC_NEVER"
TxOutcomes == HalResults \cup {TcNever}
HalResult(outcome) == IF outcome = TcNever THEN "HAL_TIMEOUT" ELSE outcome

NoHandler == "NULL"

\* variant comparison: no input given yet
NoOut == [tx |-> <<>>, verdict |-> "none"]

(***************************************************************************)
(* RS485_SendPacket and its callers                                        *)
(*                                                                         *)
(* A call RS485_SendPacket(destAddr, cmd, data, length) is the record      *)
(* [destAddr, cmd, data, length]; data holds at least length bytes (a NULL *)
(* data pointer is passed with length 0 only).                             *)
(***************************************************************************)
SendCall(destAddr, cmd, data, length) ==
    [destAddr |-> destAddr, cmd |-> cmd, data |-> data, length |-> length]

\* crcBuffer: destination, source, command, length, then the payload
CrcBuffer(packet) ==
    <<packet.destAddr, packet.srcAddr, packet.command, packet.length>>
    \o packet.data

\* a txBuffer with the checksum stored high byte first
TxBuffer_CrcHighFirst(packet, checksum) ==
    <<RS485_START_BYTE, packet.destAddr, packet.srcAddr, packet.command,
      packet.length>>
    \o packet.data
    \o <<HighByte(checksum), LowByte(checksum), RS485_END_BYTE>>

\* txBuffer: the frame as written to the UART
TxBuffer(packet, checksum) ==
    <<RS485_START_BYTE, packet.destAddr, packet.srcAddr, packet.command,
      packet.length>>
    \o packet.data
    \o <<LowByte(checksum), HighByte(checksum), RS485_END_BYTE>>

\* lines 96-132 for a sender whose address is srcAddr: the packet, its
\* checksum, and the frame built from them
BuildFrame(call, srcAddr) ==
    LET packet == [destAddr |-> call.destAddr, srcAddr |-> srcAddr,
                   command |-> call.cmd, length |-> call.length,
                   data |-> SubSeq(call.data, 1, call.length)]
    IN  TxBuffer(packet, RS485_CalculateCRC(CrcBuffer(packet)))

\* a node that signs its frames with the address it sends to
SendFrame_AsDest(call) == BuildFrame(call, call.destAddr)

\* the frame this node builds: packet.srcAddr = myAddress
SendFrame(call) == BuildFrame(call, myAddress)

\* counters that take every transmission for a success
CountTx_AlwaysOk(st, result) == [st EXCEPT !.txPacketCount = @ + 1]

\* the counters after HAL_UART_Transmit returned result
CountTx(st, result) ==
    IF result = "HAL_OK"
    THEN [st EXCEPT !.txPacketCount = @ + 1]
    ELSE [st EXCEPT !.errorCount = @ + 1]
\* a send that has no length limit
RS485_SendPacket_NoLimit(st, call, txBuffer, result) ==
    IF result = TcNever
    THEN [ret |-> "none", status |-> st,
          tx |-> <<[buf |-> txBuffer, result |-> HalResult(result)]>>,
          hung |-> TRUE]
    ELSE [ret |-> result,
          status |-> CountTx(st, result),
          tx |-> <<[buf |-> txBuffer, result |-> result]>>, hung |-> FALSE]

\* RS485_SendPacket for the call, entered with status st, when
\* HAL_UART_Transmit returns result; txBuffer is SendFrame(call), handed in
\* so that it is built once per call. The value is the return code, the
\* status afterwards and the frames handed to the UART.
RS485_SendPacket(st, call, txBuffer, result) ==
    IF call.length > MAX_DATA_LENGTH
    THEN [ret |-> "HAL_ERROR", status |-> st, tx |-> <<>>, hung |-> FALSE]
    ELSE IF result = TcNever
    THEN [ret |-> "none", status |-> st,
          tx |-> <<[buf |-> txBuffer, result |-> HalResult(result)]>>,
          hung |-> TRUE]
    ELSE [ret |-> result,
          status |-> CountTx(st, result),
          tx |-> <<[buf |-> txBuffer, result |-> result]>>, hung |-> FALSE]

\* a send sequence that clears txInProgress before it unmasks the receive
\* interrupt
SendSteps_ClearFirst ==
    <<"SetTxInProgress", "DisableRxIT", "ComPinSet", "SettleDelay",
      "Transmit", "WaitTC", "SettleDelay", "ComPinReset",
      "ClearTxInProgress", "EnableRxIT", "Count">>

\* the txBuffer of each of the calls
RECURSIVE TxBuffers(_, _)
TxBuffers(calls, i) ==
    IF i > Len(calls) THEN <<>>
    ELSE <<SendFrame(calls[i])>> \o TxBuffers(calls, i + 1)

\* the calls made one after the other from status st, the i-th with
\* txBuffers[i] and the HAL result results[i]: the status afterwards and the
\* buffers handed to HAL_UART_Transmit
RECURSIVE SendAll(_, _, _, _, _)
SendAll(st, calls, txBuffers, results, i) ==
    IF i > Len(calls) THEN [status |-> st, tx |-> <<>>, hung |-> FALSE]
    ELSE LET r == RS485_SendPacket(st, calls[i], txBuffers[i], results[i])
             rest == SendAll(r.status, calls, txBuffers, results, i + 1)
         IN  IF r.hung THEN r
             ELSE [status |-> rest.status, tx |-> r.tx \o rest.tx,
                   hung |-> rest.hung]

\* a send sequence that releases the driver after it has cleared the flag
SendSteps_PinLast ==
    <<"SetTxInProgress", "DisableRxIT", "ComPinSet", "SettleDelay",
      "Transmit", "WaitTC", "SettleDelay", "EnableRxIT",
      "ClearTxInProgress", "ComPinReset", "Count">>

\* the statements of RS485_SendPacket from line 134 on, in program order
SendSteps ==
    <<"SetTxInProgress", "DisableRxIT", "ComPinSet", "SettleDelay",
      "Transmit", "WaitTC", "SettleDelay", "ComPinReset", "EnableRxIT",
      "ClearTxInProgress", "Count">>

\* the line state [txInProgress, rxneIT, comPin] after one statement
SendStep(op, line) ==
    CASE op = "SetTxInProgress" -> [line EXCEPT !.txInProgress = 1]
      [] op = "DisableRxIT" -> [line EXCEPT !.rxneIT = FALSE]
      [] op = "ComPinSet" -> [line EXCEPT !.comPin = "SET"]
      [] op = "ComPinReset" -> [line EXCEPT !.comPin = "RESET"]
      [] op = "EnableRxIT" -> [line EXCEPT !.rxneIT = TRUE]
      [] op = "ClearTxInProgress" -> [line EXCEPT !.txInProgress = 0]
      [] OTHER -> line

\* the line state after the statements ops[i..], run without interruption
\* (a call made by a handler, inside the receive interrupt)
RECURSIVE RunSendSteps(_, _, _)
RunSendSteps(ops, i, line) ==
    IF i > Len(ops) THEN line
    ELSE RunSendSteps(ops, i + 1, SendStep(ops[i], line))

\* RS485_SendResponse(destAddr, cmd, data, length): the call it makes
RS485_SendResponse(destAddr, cmd, data, length) ==
    SendCall(destAddr, cmd, data, length)

\* an error response with the two payload bytes exchanged
RS485_SendError_AddressFirst(destAddr, error) ==
    SendCall(destAddr, CMD_ERROR_RESPONSE, <<myAddress, error>>, 2)

\* RS485_SendError(destAddr, error): errorData[0] = error; errorData[1] =
\* myAddress; the call it makes
RS485_SendError(destAddr, error) ==
    SendCall(destAddr, CMD_ERROR_RESPONSE, <<error, myAddress>>, 2)

(***************************************************************************)
(* Built-in command handlers: the RS485_SendResponse call each one makes   *)
(***************************************************************************)
\* memcpy of a uint32_t, little-endian
\* a ping handler that answers to the request's destination
RS485_HandlePing_ToDest(st, packet) ==
    RS485_SendResponse(packet.destAddr, CMD_PING_RESPONSE, <<>>, 0)

RS485_HandlePing(st, packet) ==
    RS485_SendResponse(packet.srcAddr, CMD_PING_RESPONSE, <<>>, 0)

RS485_HandleGetVersion(st, packet) ==
    RS485_SendResponse(packet.srcAddr, CMD_VERSION_RESPONSE,
        <<FW_VERSION_MAJOR, FW_VERSION_MINOR, FW_VERSION_PATCH, FW_BUILD_NUMBER,
          myAddress, 0, 0, 0>>, 8)

RS485_HandleHeartbeat(st, packet) ==
    RS485_SendResponse(packet.srcAddr, CMD_HEARTBEAT_RESPONSE,
        <<myAddress, st.health>>, 2)

\* a 32-bit value stored most significant byte first
U32Bytes_BigEndian(v) ==
    <<(v \div 16777216) % 256, (v \div 65536) % 256, (v \div 256) % 256, v % 256>>

\* memcpy of a uint32_t on the little-endian Cortex-M: least significant
\* byte first
U32Bytes(v) ==
    <<v % 256, (v \div 256) % 256, (v \div 65536) % 256, (v \div 16777216) % 256>>

\* a status handler that reports the receive count before the error count
RS485_HandleGetStatus_RxFirst(st, packet) ==
    RS485_SendResponse(packet.srcAddr, CMD_STATUS_RESPONSE,
        <<st.mcuId, st.health>> \o U32Bytes(st.uptime)
        \o U32Bytes(st.rxPacketCount) \o U32Bytes(st.errorCount)
        \o SubSeq(U32Bytes(st.txPacketCount), 1, 2),
        16)

RS485_HandleGetStatus(st, packet) ==
    RS485_SendResponse(packet.srcAddr, CMD_STATUS_RESPONSE,
        <<st.mcuId, st.health>> \o U32Bytes(st.uptime) \o U32Bytes(st.errorCount)
        \o U32Bytes(st.rxPacketCount) \o SubSeq(U32Bytes(st.txPacketCount), 1, 2),
        16)

\* DigitalOutput_SetAll(buffer, bufferSize): the first min(7, bufferSize)
\* bytes of the packed outputs are replaced, the others keep their value
DigitalOutput_SetAll(states, buffer, bufferSize) ==
    LET numBytes == IF OutputBytes > bufferSize THEN bufferSize ELSE OutputBytes
    IN  [k \in 1..OutputBytes |-> IF k <= numBytes THEN buffer[k] ELSE states[k]]

\* DigitalOutput_GetAll(outputData, 7)
DigitalOutput_GetAll(states) == states

\* main.c of controller OUT: the call HandleWriteDO makes after
\* DigitalOutput_SetAll(packet->data, packet->length)
HandleWriteDO(st, packet) ==
    RS485_SendResponse(packet.srcAddr, CMD_DO_RESPONSE, <<>>, 0)

\* main.c of controller OUT
HandleReadDO(st, packet) ==
    RS485_SendResponse(packet.srcAddr, CMD_DO_RESPONSE,
                       DigitalOutput_GetAll(outputStates), OutputBytes)

\* commandHandlers[command](&packet) with status st
CallHandler(handler, st, packet) ==
    CASE handler = "RS485_HandlePing" -> RS485_HandlePing(st, packet)
      [] handler = "RS485_HandleGetVersion" -> RS485_HandleGetVersion(st, packet)
      [] handler = "RS485_HandleHeartbeat" -> RS485_HandleHeartbeat(st, packet)
      [] handler = "RS485_HandleGetStatus" -> RS485_HandleGetStatus(st, packet)
      [] handler = "HandleWriteDO" -> HandleWriteDO(st, packet)
      [] handler = "HandleReadDO" -> HandleReadDO(st, packet)

(***************************************************************************)
(* RS485_ProcessPacket: checksum, addressing, dispatch                     *)
(***************************************************************************)
\* receivedCRC = buffer[5 + length] | (buffer[5 + length + 1] << 8)
ReceivedCRC(buffer, length) == buffer[6 + length] + 256 * buffer[7 + length]

\* a receiver that takes the received checksum for the computed one
CalculatedCRC_Trusting(buffer, length) ==
    buffer[6 + length] + 256 * buffer[7 + length]

\* the checksum recomputed over destination, source, command, length, payload
CalculatedCRC(buffer, length) ==
    RS485_CalculateCRC(SubSeq(buffer, 2, 5) \o SubSeq(buffer, 6, 5 + length))

\* an address test that lets every destination pass
IsForUs_Everyone(destAddr) == TRUE

\* the packet is for us
IsForUs(destAddr) == destAddr = myAddress \/ destAddr = RS485_ADDR_BROADCAST

\* the packet structure built for the handler; packet.data is copied only
\* for 0 < length <= 250 (a longer frame never completes, see the framer)
HandlerPacket(buffer) ==
    [destAddr |-> buffer[2], srcAddr |-> buffer[3], command |-> buffer[4],
     length |-> buffer[5],
     data |-> IF buffer[5] > 0 /\ buffer[5] <= MAX_DATA_LENGTH
              THEN SubSeq(buffer, 6, 5 + buffer[5]) ELSE <<>>]

\* a checksum mismatch that is answered but not counted
ChecksumMismatch_NotCounted(st, srcAddr) ==
    [status |-> st,
     send |-> <<RS485_SendError(srcAddr, RS485_ERR_INVALID_CHECKSUM)>>,
     dispatched |-> <<>>]

\* what RS485_ProcessPacket does after a checksum mismatch
ChecksumMismatch(st, srcAddr) ==
    [status |-> [st EXCEPT !.errorCount = @ + 1],
     send |-> <<RS485_SendError(srcAddr, RS485_ERR_INVALID_CHECKSUM)>>,
     dispatched |-> <<>>]

\* a dispatcher that reports an invalid command after the handler returned
Dispatch_ThenError(st, buffer) ==
    LET st1 == [st EXCEPT !.rxPacketCount = @ + 1]
        packet == HandlerPacket(buffer)
        handler == commandHandlers[packet.command]
        error == RS485_SendError(packet.srcAddr, RS485_ERR_INVALID_COMMAND)
    IN  [status |-> st1,
         send |-> IF handler # NoHandler
                  THEN <<CallHandler(handler, st1, packet), error>>
                  ELSE <<error>>,
         dispatched |-> <<[handler |-> handler, packet |-> packet]>>]

\* a dispatcher that counts the packet after the handler has run
Dispatch_CountLast(st, buffer) ==
    LET st1 == [st EXCEPT !.rxPacketCount = @ + 1]
        packet == HandlerPacket(buffer)
        handler == commandHandlers[packet.command]
    IN  IF handler # NoHandler
        THEN [status |-> st1, send |-> <<CallHandler(handler, st, packet)>>,
              dispatched |-> <<[handler |-> handler, packet |-> packet]>>]
        ELSE [status |-> st1,
              send |-> <<RS485_SendError(packet.srcAddr,
                                         RS485_ERR_INVALID_COMMAND)>>,
              dispatched |-> <<[handler |-> NoHandler, packet |-> packet]>>]

\* what RS485_ProcessPacket does with a packet that is for us
Dispatch(st, buffer) ==
    LET st1 == [st EXCEPT !.rxPacketCount = @ + 1]
        packet == HandlerPacket(buffer)
        handler == commandHandlers[packet.command]
    IN  IF handler # NoHandler
        THEN [status |-> st1, send |-> <<CallHandler(handler, st1, packet)>>,
              dispatched |-> <<[handler |-> handler, packet |-> packet]>>]
        ELSE [status |-> st1,
              send |-> <<RS485_SendError(packet.srcAddr,
                                         RS485_ERR_INVALID_COMMAND)>>,
              dispatched |-> <<[handler |-> NoHandler, packet |-> packet]>>]

\* RS485_ProcessPacket(buffer) entered with status st. Every path ends
\* either without a transmission or in one RS485_SendPacket call, made last:
\* the value is the status before that call, the call (send, at most one)
\* and the packet dispatched.
RS485_ProcessPacket(buffer, st) ==
    LET destAddr == buffer[2]
        srcAddr == buffer[3]
        length == buffer[5]
    IN  IF CalculatedCRC(buffer, length) # ReceivedCRC(buffer, length)
        THEN ChecksumMismatch(st, srcAddr)
        ELSE IF ~IsForUs(destAddr)
        THEN [status |-> st, send |-> <<>>, dispatched |-> <<>>]
        ELSE Dispatch(st, buffer)

\* a timeout test that already fires at a gap of 500 ms
FrameTimedOut_AtLimit(now) ==
    TickGreater(TickSub(now, lastByteTime), FRAME_TIMEOUT_MS - 1) /\ packetIndex > 0

(***************************************************************************)
(* RS485_ProcessReceivedByte: the byte-stream framer                       *)
(***************************************************************************)
\* now - lastByteTime > 500 && packetIndex > 0
FrameTimedOut(now) ==
    TickGreater(TickSub(now, lastByteTime), FRAME_TIMEOUT_MS) /\ packetIndex > 0

\* a completion test that ignores the length field
FrameComplete_MinimumOnly(index, expected) == index >= 8

\* packetIndex >= 8 && packetIndex >= (5 + expectedLength + 3)
FrameComplete(index, expected) == index >= 8 /\ index >= 5 + expected + 3

\* an end test that accepts every last byte
EndByteOk_Always(buffer, index) == TRUE

\* packetBuffer[packetIndex - 1] == RS485_END_BYTE
EndByteOk(buffer, index) == buffer[index] = RS485_END_BYTE

\* an overflow guard that lets one more byte in
BufferFull_Late(index) == index > RS485_MAX_PACKET_SIZE

\* packetIndex >= RS485_MAX_PACKET_SIZE
BufferFull(index) == index >= RS485_MAX_PACKET_SIZE

\* a framer that stores every byte it gets while Idle
IdleDrop_Never(index, byte) == FALSE

\* packetIndex == 0 && byte != RS485_START_BYTE: the byte is ignored
IdleDrop(index, byte) == index = 0 /\ byte # RS485_START_BYTE

\* a completion branch that leaves the frame in the buffer
CompletionBranch_NoReset(f) ==
    IF FrameComplete(f.index, f.expected)
    THEN LET out == IF EndByteOk(f.buffer, f.index)
                    THEN RS485_ProcessPacket(f.buffer, f.status)
                    ELSE [status |-> [f.status EXCEPT !.errorCount = @ + 1],
                          send |-> <<>>, dispatched |-> <<>>]
         IN  [buffer |-> f.buffer, index |-> f.index, expected |-> f.expected,
              status |-> out.status, send |-> out.send,
              dispatched |-> out.dispatched, frames |-> <<f.buffer>>]
    ELSE f

\* the completion branch (lines 433-446), entered with the byte stored
CompletionBranch(f) ==
    IF FrameComplete(f.index, f.expected)
    THEN LET out == IF EndByteOk(f.buffer, f.index)
                    THEN RS485_ProcessPacket(f.buffer, f.status)
                    ELSE [status |-> [f.status EXCEPT !.errorCount = @ + 1],
                          send |-> <<>>, dispatched |-> <<>>]
         IN  [buffer |-> <<>>, index |-> 0, expected |-> 0,
              status |-> out.status, send |-> out.send,
              dispatched |-> out.dispatched, frames |-> <<f.buffer>>]
    ELSE f

\* the framer while RS485_ProcessPacket has not returned (line 438): the
\* reset of lines 443-444 is still to come, the frame is in the buffer
StillInFrame(f) ==
    [f EXCEPT !.buffer = f.frames[1], !.index = Len(f.frames[1]),
              !.expected = f.frames[1][5]]

\* an overflow guard that tests the index the byte was stored at, not the
\* index the completion branch left
OverflowGuard_BeforeReset(f) ==
    IF BufferFull(f.index)
       \/ (f.frames # <<>> /\ BufferFull(Len(f.frames[1])))
    THEN [f EXCEPT !.buffer = <<>>, !.index = 0, !.expected = 0,
                   !.status = [f.status EXCEPT !.errorCount = @ + 1]]
    ELSE f

\* the overflow guard (lines 448-454)
OverflowGuard(f) ==
    IF BufferFull(f.index)
    THEN [f EXCEPT !.buffer = <<>>, !.index = 0, !.expected = 0,
                   !.status = [f.status EXCEPT !.errorCount = @ + 1]]
    ELSE f

\* the timeout reset (lines 411-417): the framer state the byte meets
AfterTimeout(now) ==
    IF FrameTimedOut(now)
    THEN [buffer |-> <<>>, index |-> 0, expected |-> 0]
    ELSE [buffer |-> packetBuffer, index |-> packetIndex,
          expected |-> expectedLength]

\* RS485_ProcessReceivedByte(byte) at tick now: the framer state and the
\* status afterwards, the RS485_SendPacket call made (status is the one
\* before that call), the packets dispatched and the buffers for which the
\* completion test was true. Only
\* packetBuffer[0 .. packetIndex-1] is ever read, so the buffer is kept as
\* that prefix.
RS485_ProcessReceivedByte(byte, now) ==
    LET f0 == AfterTimeout(now)
    IN  IF IdleDrop(f0.index, byte)
        THEN [buffer |-> f0.buffer, index |-> f0.index, expected |-> f0.expected,
              status |-> status, send |-> <<>>, dispatched |-> <<>>,
              frames |-> <<>>]
        ELSE LET buffer1 == Append(f0.buffer, byte)
                 index1 == f0.index + 1
                 expected1 == IF index1 = 5 THEN buffer1[5] ELSE f0.expected
             IN  OverflowGuard(CompletionBranch(
                     [buffer |-> buffer1, index |-> index1,
                      expected |-> expected1, status |-> status,
                      send |-> <<>>, dispatched |-> <<>>,
                      frames |-> <<>>]))

(***************************************************************************)
(* The bus side: what is put on the line                                   *)
(***************************************************************************)
\* bounds of the model
MaxShortLen == 2
MaxGarbage == 2

\* the addresses RS485_Init is called with
InitAddrs == {RS485_ADDR_CONTROLLER_420, RS485_ADDR_CONTROLLER_DIO,
              RS485_ADDR_CONTROLLER_OUT}

\* the number of RS485_RegisterCommandHandler calls after RS485_Init
MaxRegistrations == 2

BusDests == {RS485_ADDR_BROADCAST, RS485_ADDR_CONTROLLER_420,
             RS485_ADDR_CONTROLLER_DIO, RS485_ADDR_CONTROLLER_OUT}
\* the senders: the GUI master and another controller
BusSrcs == {RS485_ADDR_GUI, RS485_ADDR_CONTROLLER_OUT}
BusCmds == {CMD_PING, CMD_GET_VERSION, CMD_HEARTBEAT, CMD_GET_STATUS,
            CMD_READ_DI, CMD_ERROR_RESPONSE}
\* one command with a built-in handler, one without
FewCmds == {CMD_PING, CMD_READ_DI}
ShortLens == 0..MaxShortLen
\* the payload lengths whose frames fill the 256-byte receive buffer exactly
\* or exceed it
LongLens == (RS485_MAX_PACKET_SIZE - 8)..MAX_DATA_LENGTH
GarbageBytes == {0, RS485_END_BYTE, RS485_START_BYTE}

\* a payload of n bytes: 0x55, 0xAA, 0xFF, 0x54, ...
Payload(n) == [i \in 1..n |-> (85 * i) % 256]

\* a payload that holds the checksum and end sentinel of the empty frame
\* with the same header
NestedPayload(dest, src, cmd) ==
    LET c == RS485_CalculateCRC(<<dest, src, cmd, 0>>)
    IN  <<LowByte(c), HighByte(c), RS485_END_BYTE, 0>>

\* the frame a sender with address src running this protocol emits for
\* RS485_SendPacket(dest, cmd, data, Len(data))
SenderFrame(dest, src, cmd, data) ==
    BuildFrame(SendCall(dest, cmd, data, Len(data)), src)

\* byte sequences over GarbageBytes of length 1..n
RECURSIVE GarbageSeqs(_)
GarbageSeqs(n) ==
    IF n = 0 THEN {}
    ELSE {<<b>> : b \in GarbageBytes}
         \cup {Append(g, b) : g \in GarbageSeqs(n - 1), b \in GarbageBytes}

NoInput ==
    [kind |-> "none", pre |-> <<>>, pause |-> 0, gap |-> 0, dest |-> 0, src |-> 0,
     cmd |-> 0, data |-> <<>>, pos |-> 0, bit |-> 0, frame |-> <<>>,
     ret |-> "none"]

\* a valid frame, sent as it is
Plain(pre, pause, gap, dest, src, cmd, data) ==
    [NoInput EXCEPT !.kind = "plain", !.pre = pre, !.pause = pause, !.gap = gap,
                    !.dest = dest, !.src = src, !.cmd = cmd, !.data = data,
                    !.frame = SenderFrame(dest, src, cmd, data)]

\* a valid frame with bit `bit` of the byte at offset pos flipped
Flipped(kind, sc, pos, bit) ==
    [sc EXCEPT !.kind = kind, !.pos = pos, !.bit = bit,
               !.frame = [@ EXCEPT ![pos + 1] = FlipBit(@, bit)]]

\* a valid frame with its last byte replaced by e
WrongEnd(sc, e) ==
    [sc EXCEPT !.kind = "badEnd", !.pos = Len(sc.frame) - 1,
               !.frame = [@ EXCEPT ![Len(sc.frame)] = e]]

PlainInputs ==
    {Plain(<<>>, gap, gap, dest, src, cmd, Payload(n)) :
        gap \in {0, FRAME_TIMEOUT_MS}, dest \in BusDests, src \in BusSrcs,
        cmd \in BusCmds, n \in ShortLens}
    \cup {Plain(<<>>, 0, 0, dest, RS485_ADDR_GUI, cmd, Payload(n)) :
        dest \in BusDests, cmd \in FewCmds, n \in LongLens}

FewFrames ==
    {Plain(<<>>, 0, 0, dest, RS485_ADDR_GUI, cmd, Payload(n)) :
        dest \in BusDests, cmd \in FewCmds, n \in ShortLens}
    \cup {Plain(<<>>, 0, 0, dest, RS485_ADDR_GUI, cmd,
                NestedPayload(dest, RS485_ADDR_GUI, cmd)) :
        dest \in BusDests, cmd \in FewCmds}

LongFrames ==
    {Plain(<<>>, 0, 0, dest, RS485_ADDR_GUI, CMD_PING, Payload(n)) :
        dest \in {RS485_ADDR_CONTROLLER_420, RS485_ADDR_CONTROLLER_DIO},
        n \in LongLens}

WrongEndInputs ==
    {WrongEnd(sc, e) : sc \in FewFrames \cup LongFrames,
                       e \in {0, RS485_START_BYTE}}

\* a bit of one of the two checksum bytes flipped
BadCrcInputs ==
    UNION {{Flipped("badCrc", sc, pos, bit) :
                pos \in {5 + Len(sc.data), 6 + Len(sc.data)}, bit \in {0, 7}} :
           sc \in {x \in FewFrames \cup LongFrames :
                     Len(x.data) <= RS485_MAX_PACKET_SIZE - 8}}

\* a bit of the destination, source, command, length or a payload byte
\* flipped: every such bit of the short frames, the top bit of the
\* destination and of the last payload byte of the long ones
FlipInputs ==
    UNION {{Flipped("flip", sc, pos, bit) :
                pos \in 1..(4 + Len(sc.data)), bit \in 0..7} : sc \in FewFrames}
    \cup UNION {{Flipped("flip", sc, pos, 7) : pos \in {1, 4 + Len(sc.data)}} :
                sc \in LongFrames}

\* garbage, possibly a pause, then a valid frame
PrefixedInputs ==
    {Plain(pre, pause, 0, dest, RS485_ADDR_GUI, cmd, Payload(n)) :
        pre \in GarbageSeqs(MaxGarbage), pause \in {0, FRAME_TIMEOUT_MS + 1},
        dest \in BusDests, cmd \in FewCmds, n \in {0, MaxShortLen}}
    \cup {Plain(<<0>>, 0, 0, sc.dest, sc.src, sc.cmd, sc.data) : sc \in LongFrames}

\* a 258-byte frame whose length field is replaced by a value above 250
OverLenInputs ==
    {[sc EXCEPT !.kind = "overLen", !.pos = 4, !.frame = [@ EXCEPT ![5] = n]] :
        sc \in {x \in LongFrames : Len(x.data) = MAX_DATA_LENGTH},
        n \in {MAX_DATA_LENGTH + 1, 255}}

\* a checksum byte of the frame has the value of a sentinel
SentinelInChecksum(frame) ==
    \E k \in {Len(frame) - 2, Len(frame) - 1} :
        frame[k] \in {RS485_START_BYTE, RS485_END_BYTE}

\* valid frames with the sentinel values 0xAA and 0x55 in the source,
\* command and length fields, and those of the broadcast frames from the GUI
\* with no payload or a one-byte payload to PING that have one in a
\* checksum byte
SentinelInputs ==
    {Plain(<<>>, 0, 0, dest, RS485_END_BYTE, RS485_START_BYTE, Payload(n)) :
        dest \in {RS485_ADDR_BROADCAST, RS485_ADDR_CONTROLLER_420},
        n \in {0, RS485_END_BYTE, RS485_START_BYTE}}
    \cup {sc \in {Plain(<<>>, 0, 0, RS485_ADDR_BROADCAST, RS485_ADDR_GUI,
                        cmd, <<>>) : cmd \in Byte}
                 \cup {Plain(<<>>, 0, 0, RS485_ADDR_BROADCAST, RS485_ADDR_GUI,
                             CMD_PING, <<d>>) : d \in Byte} :
            SentinelInChecksum(sc.frame)}

BusInputs ==
    PlainInputs \cup WrongEndInputs \cup BadCrcInputs \cup FlipInputs
    \cup PrefixedInputs \cup OverLenInputs \cup SentinelInputs

\* what the master sends to controller OUT: requests with and without a
\* payload, a WRITE_DO with more bytes than there are outputs, a READ_DO for
\* another controller, a WRITE_DO with a wrong checksum, and a WRITE_DO
\* followed by a READ_DO
OutInputs ==
    LET out == RS485_ADDR_CONTROLLER_OUT
        gui == RS485_ADDR_GUI
        write == Plain(<<>>, 0, 0, out, gui, CMD_WRITE_DO, Payload(2))
    IN  {Plain(<<>>, 0, 0, dest, gui, cmd, Payload(n)) :
            dest \in {out, RS485_ADDR_BROADCAST},
            cmd \in {CMD_PING, CMD_WRITE_DO, CMD_READ_DO}, n \in {0, 2}}
        \cup {Plain(<<>>, 0, 0, out, gui, CMD_WRITE_DO, Payload(OutputBytes + 1)),
              Plain(<<>>, 0, 0, RS485_ADDR_CONTROLLER_DIO, gui, CMD_READ_DO, <<>>),
              Flipped("badCrc", write, 5 + Len(write.data), 0),
              [write EXCEPT !.kind = "pair",
                            !.frame = @ \o SenderFrame(out, gui, CMD_READ_DO, <<>>)]}

\* the RS485_RegisterCommandHandler calls made: those of main.c of
\* controller OUT, one that rebinds READ_DO and one that rebinds a built-in
\* command
RegCalls ==
    {<<CMD_WRITE_DO, "HandleWriteDO">>, <<CMD_READ_DO, "HandleReadDO">>,
     <<CMD_READ_DO, "HandleWriteDO">>, <<CMD_PING, "HandleReadDO">>}

\* a registration that keeps an existing binding
Registered_KeepFirst(handlers, cmd, handler) ==
    IF handlers[cmd] = NoHandler THEN [handlers EXCEPT ![cmd] = handler]
    ELSE handlers

\* commandHandlers[cmd] = handler
Registered(handlers, cmd, handler) == [handlers EXCEPT ![cmd] = handler]

\* a broadcast PING from the GUI, on the line while the application sends
ConcurrentInputs ==
    {[Plain(<<>>, 0, 0, RS485_ADDR_BROADCAST, RS485_ADDR_GUI, CMD_PING, <<>>)
        EXCEPT !.kind = "concurrent"]}

\* the inputs of a behaviour: controller OUT, the one with registered
\* handlers, gets OutInputs
Inputs ==
    IF myAddress = RS485_ADDR_CONTROLLER_OUT THEN OutInputs
    ELSE BusInputs \cup ConcurrentInputs

\* the time in ms that passes before the next byte of the line arrives
NextGap ==
    IF Len(sent.pre) + Len(sent.frame) - Len(rxLine) = Len(sent.pre)
    THEN sent.pause ELSE sent.gap

(***************************************************************************)
(* Initial state and actions                                               *)
(***************************************************************************)
\* no RS485_SendPacket call of the application yet
\* the register of the counter increment holds no value
NotLoaded == -1

NoJob ==
    [state |-> "none", call |-> SendCall(0, 0, <<>>, 0), txBuffer |-> <<>>,
     pc |-> 0, result |-> "none", ret |-> "none", loaded |-> NotLoaded]

\* the line state the send sequence works on
Line == [txInProgress |-> txInProgress, rxneIT |-> rxneIT, comPin |-> comPin]

\* the calls the application makes: any of a few when the bus is silent, one
\* request to the GUI while a frame is coming in
AppCalls ==
    IF sent.kind = "none"
    THEN {SendCall(dest, cmd, Payload(n), n) :
            dest \in {RS485_ADDR_GUI, RS485_ADDR_BROADCAST},
            cmd \in {CMD_PING_RESPONSE, CMD_READ_DI},
            n \in ShortLens \cup (MAX_DATA_LENGTH..(MAX_DATA_LENGTH + 1))}
    ELSE {SendCall(RS485_ADDR_GUI, CMD_READ_DI, <<>>, 0)}

\* the state RS485_Init(myAddr) leaves, at boot
\* RS485_Init but for the counters and the clock
InitNode ==
    /\ myAddress \in InitAddrs
    /\ commandHandlers =
         [c \in Byte |->
            CASE c = CMD_PING -> "RS485_HandlePing"
              [] c = CMD_GET_VERSION -> "RS485_HandleGetVersion"
              [] c = CMD_HEARTBEAT -> "RS485_HandleHeartbeat"
              [] c = CMD_GET_STATUS -> "RS485_HandleGetStatus"
              [] OTHER -> NoHandler]
    /\ txInProgress = 0
    /\ comPin = "RESET"
    /\ rxneIT = TRUE
    /\ packetBuffer = <<>>
    /\ packetIndex = 0
    /\ expectedLength = 0
    /\ lastByteTime = Tick32(0, 0)
    /\ rxLine = <<>>
    /\ sent = NoInput
    /\ txLog = <<>>
    /\ frameLog = <<>>
    /\ dispatchLog = <<>>
    /\ outputStates = [k \in 1..OutputBytes |-> 0]
    /\ regLog = <<>>
    /\ txJob = NoJob
    /\ opLog = <<>>
    /\ tcWait = "none"
    /\ crcData = <<>>
    /\ crcResult = NoCrc
    /\ reply = <<>>
    /\ castStatus = [mcuId |-> myAddress, health |-> HEALTH_INIT, uptime |-> 0,
                     errorCount |-> 0, rxPacketCount |-> 0,
                     txPacketCount |-> 0]
    /\ castBuf255 = 0
    /\ castSeen = 0
    /\ anaOut = NoOut
    /\ castOut = NoOut

\* a status that memset left at health 0
InitStatus_ZeroHealth ==
    [mcuId |-> myAddress, health |-> 0, uptime |-> 0,
     errorCount |-> 0, rxPacketCount |-> 0, txPacketCount |-> 0]

\* memset(&status, 0, sizeof(status)); status.mcuId = myAddress;
\* status.health = 100
InitStatus ==
    [mcuId |-> myAddress, health |-> HEALTH_INIT, uptime |-> 0,
     errorCount |-> 0, rxPacketCount |-> 0, txPacketCount |-> 0]

\* no second node: a record without a node address
NoPeer == [myAddress |-> RS485_ADDR_BROADCAST]
HasPeer == peer.myAddress # RS485_ADDR_BROADCAST

Init ==
    /\ InitNode
    /\ status = InitStatus
    /\ base = status
    /\ tick = Tick32(0, 0)
    /\ peer = NoPeer

\* the master (or garbage on the bus) puts an input on the line
BusSend ==
    /\ sent.kind = "none"
    /\ \E sc \in Inputs :
         /\ sent' = sc
         /\ rxLine' = sc.pre \o sc.frame
    /\ base' = status
    /\ txLog' = <<>>
    /\ frameLog' = <<>>
    /\ dispatchLog' = <<>>
    /\ UNCHANGED <<nodeVars, tick, regLog, txJob, opLog, tcWait, otherVars>>

\* the application calls RS485_SendPacket from the main context: the length
\* check and the construction of txBuffer (lines 92-132). The call is made
\* on a silent bus, or while an input of the kind "concurrent" is on the
\* line.
AppSend ==
    /\ tcWait = "none"
    /\ txJob.state = "none"
    /\ regLog = <<>>
    /\ sent.kind \in {"none", "concurrent"}
    /\ \E call \in AppCalls :
         LET rejected == RS485_SendPacket(status, call, <<>>, "HAL_OK").tx = <<>>
         IN  /\ txJob' = IF rejected
                         THEN [NoJob EXCEPT !.state = "returned", !.call = call,
                                            !.ret = "HAL_ERROR"]
                         ELSE [NoJob EXCEPT !.state = "running", !.call = call,
                                            !.txBuffer = SendFrame(call)]
             /\ sent' = IF sent.kind = "none"
                        THEN [NoInput EXCEPT !.kind = "appSend",
                                             !.dest = call.destAddr,
                                             !.cmd = call.cmd,
                                             !.data = call.data,
                                             !.ret = IF rejected THEN "HAL_ERROR"
                                                     ELSE "none"]
                        ELSE sent
    /\ base' = IF sent.kind = "none" THEN status ELSE base
    /\ opLog' = <<>>
    /\ UNCHANGED <<nodeVars, tick, rxLine, txLog, frameLog, dispatchLog, regLog,
                   tcWait, otherVars>>

\* the counter that the update of lines 170-176 increments, as the load of
\* the increment reads it
LoadedCounter(st, result) ==
    IF result = "HAL_OK" THEN st.txPacketCount ELSE st.errorCount

\* the status as the store of the increment sees it: the counter has the
\* value that was loaded, whatever was written to it since
WithLoaded(st, result, loaded) ==
    IF result = "HAL_OK" THEN [st EXCEPT !.txPacketCount = loaded]
    ELSE [st EXCEPT !.errorCount = loaded]

\* the statements before the wait for the TC flag
BeforeWaitTC ==
    SubSeq(SendSteps, 1, (CHOOSE i \in 1..Len(SendSteps) : SendSteps[i] = "WaitTC") - 1)

\* the application's call executes its next statement of the send sequence.
\* HAL_UART_Transmit returns any of its results, and the wait for TC ends
\* unless the transmitter has stopped: then the call spins in the loop of
\* line 154 and takes no further step. The counter increment of the last
\* statement is a load and a store, with the receive interrupt unmasked in
\* between; the store ends the call, which returns the result.
SendPacketStep ==
    /\ txJob.state = "running"
    /\ tcWait = "none"
    /\ LET op == SendSteps[txJob.pc + 1]
           line == SendStep(op, Line)
       IN  IF op = "Count" /\ txJob.loaded = NotLoaded
           THEN /\ txJob' = [txJob EXCEPT
                               !.loaded = LoadedCounter(status, txJob.result)]
                /\ UNCHANGED <<status, txInProgress, rxneIT, comPin, txLog, sent,
                               opLog, tcWait>>
           ELSE /\ txInProgress' = line.txInProgress
                /\ rxneIT' = line.rxneIT
                /\ comPin' = line.comPin
                /\ \E outcome \in IF op = "Transmit" THEN TxOutcomes
                                  ELSE {txJob.result} :
                     LET result == HalResult(outcome)
                         st == IF op = "Count"
                               THEN WithLoaded(status, result, txJob.loaded)
                               ELSE status
                         r == RS485_SendPacket(st, txJob.call, txJob.txBuffer,
                                               outcome)
                         last == txJob.pc + 1 = Len(SendSteps)
                     IN  /\ txLog' = IF op = "Transmit" THEN txLog \o r.tx
                                     ELSE txLog
                         /\ tcWait' = IF op = "Transmit" /\ r.hung THEN "main"
                                      ELSE tcWait
                         /\ status' = IF op = "Count" THEN r.status ELSE status
                         /\ txJob' = [txJob EXCEPT
                                        !.pc = @ + 1, !.result = result,
                                        !.state = IF last THEN "returned" ELSE @,
                                        !.ret = IF last THEN r.ret ELSE @]
                         /\ sent' = IF last /\ sent.kind = "appSend"
                                    THEN [sent EXCEPT !.ret = r.ret] ELSE sent
                         /\ opLog' = Append(opLog,
                                        [op |-> op, line |-> line,
                                         rxLeft |-> Len(rxLine),
                                         was |-> [txPacketCount |-> status.txPacketCount,
                                                  errorCount |-> status.errorCount],
                                         written |-> Len(txLog'),
                                         txPacketCount |-> status'.txPacketCount,
                                         errorCount |-> status'.errorCount])
    /\ UNCHANGED <<myAddress, commandHandlers, packetBuffer, packetIndex,
                   expectedLength, lastByteTime, outputStates, tick, rxLine,
                   frameLog, dispatchLog, base, regLog, otherVars>>

\* a callback that never ignores a byte
RxIgnored_Never == FALSE

\* if (txInProgress): the callback ignores the byte (loopback prevention)
RxIgnored == txInProgress = 1

\* the receive interrupt delivers the next byte of the line: the callback,
\* RS485_ProcessReceivedByte and, when the byte completes a frame that is
\* answered, the RS485_SendPacket call, whose HAL_UART_Transmit returns any
\* of its results. That call runs inside the interrupt, all its statements
\* at once; when the transmitter has stopped, it spins in the loop of line
\* 154 with the line as the statements before it left it, and the interrupt
\* never returns.
HAL_UART_RxCpltCallback ==
    /\ rxLine # <<>>
    /\ rxneIT
    /\ LET byte == Head(rxLine)
           now == TickAdd(tick, NextGap)
       IN  /\ tick' = now
           /\ rxLine' = Tail(rxLine)
           /\ IF RxIgnored
              THEN UNCHANGED <<status, packetBuffer, packetIndex, expectedLength,
                               lastByteTime, txLog, frameLog, dispatchLog,
                               txInProgress, comPin, rxneIT, outputStates,
                               tcWait>>
              ELSE \E f \in {RS485_ProcessReceivedByte(byte, now)} :
                       /\ lastByteTime' = now
                       /\ frameLog' = frameLog \o f.frames
                       /\ dispatchLog' = dispatchLog \o f.dispatched
                       /\ outputStates' =
                            IF f.dispatched # <<>>
                               /\ f.dispatched[1].handler = "HandleWriteDO"
                            THEN DigitalOutput_SetAll(outputStates,
                                                      f.dispatched[1].packet.data,
                                                      f.dispatched[1].packet.length)
                            ELSE outputStates
                       /\ IF f.send = <<>>
                          THEN /\ status' = f.status
                               /\ txLog' = txLog
                               /\ packetBuffer' = f.buffer
                               /\ packetIndex' = f.index
                               /\ expectedLength' = f.expected
                               /\ UNCHANGED <<txInProgress, comPin, rxneIT, tcWait>>
                          ELSE \E txBuffers \in {TxBuffers(f.send, 1)} :
                                   \E results \in [1..Len(f.send) -> TxOutcomes] :
                                     LET r == SendAll(f.status, f.send, txBuffers,
                                                      results, 1)
                                         line == IF r.tx = <<>> THEN Line
                                                 ELSE IF r.hung
                                                 THEN RunSendSteps(BeforeWaitTC, 1, Line)
                                                 ELSE RunSendSteps(SendSteps, 1, Line)
                                     IN  /\ status' = r.status
                                         /\ txLog' = txLog \o r.tx
                                         /\ txInProgress' = line.txInProgress
                                         /\ rxneIT' = line.rxneIT
                                         /\ comPin' = line.comPin
                                         /\ tcWait' = IF r.hung THEN "isr"
                                                       ELSE tcWait
                                         /\ \E g \in {IF r.hung THEN StillInFrame(f)
                                                       ELSE f} :
                                              /\ packetBuffer' = g.buffer
                                              /\ packetIndex' = g.index
                                              /\ expectedLength' = g.expected
    /\ UNCHANGED <<myAddress, commandHandlers, sent, base, regLog, txJob, opLog,
                   otherVars>>

\* main of controller OUT calls RS485_RegisterCommandHandler(cmd, handler),
\* before the bus or the application is active
RS485_RegisterCommandHandler ==
    /\ myAddress = RS485_ADDR_CONTROLLER_OUT
    /\ sent.kind = "none"
    /\ txJob.state = "none"
    /\ Len(regLog) < MaxRegistrations
    /\ \E call \in RegCalls :
         /\ commandHandlers' = Registered(commandHandlers, call[1], call[2])
         /\ regLog' = Append(regLog, call)
    /\ UNCHANGED <<myAddress, status, txInProgress, comPin, rxneIT, packetBuffer,
                   packetIndex, expectedLength, lastByteTime, outputStates,
                   tick, rxLine, sent, txLog, frameLog, dispatchLog, base,
                   txJob, opLog, tcWait, otherVars>>

\* the main loop calls RS485_Process: status.uptime = HAL_GetTick() / 1000
RS485_Process ==
    /\ tcWait = "none"
    /\ txJob.state # "running"
    /\ status' = [status EXCEPT !.uptime = TickSeconds(tick)]
    /\ UNCHANGED <<myAddress, commandHandlers, txInProgress, comPin, rxneIT,
                   packetBuffer, packetIndex, expectedLength, lastByteTime,
                   outputStates, tick, rxLine, sent, txLog, frameLog,
                   dispatchLog, base, regLog, txJob, opLog, tcWait, otherVars>>

Next ==
    \/ BusSend
    \/ AppSend
    \/ SendPacketStep
    \/ HAL_UART_RxCpltCallback
    \/ RS485_RegisterCommandHandler
    \/ RS485_Process

Spec == Init /\ [][Next]_vars

(***************************************************************************)
(* RS485_CalculateCRC on its own: the caller hands it any short sequence   *)
(* over CrcBytes, or the nine ASCII digits "123456789"                     *)
(***************************************************************************)
MaxCrcLen == 3
CrcBytes == {0, 1, 85, 128, 170, 255}
CrcCheckInput == <<49, 50, 51, 52, 53, 54, 55, 56, 57>>

\* the caller appends a byte to the data
CrcExtend ==
    /\ Len(crcData) < MaxCrcLen
    /\ \E b \in CrcBytes : crcData' = Append(crcData, b)
    /\ crcResult' = NoCrc
    /\ UNCHANGED <<mainVars, busVars, castVars>>

\* the caller takes the nine digits as the data
CrcDigits ==
    /\ crcData = <<>>
    /\ crcData' = CrcCheckInput
    /\ crcResult' = NoCrc
    /\ UNCHANGED <<mainVars, busVars, castVars>>

\* crc = RS485_CalculateCRC(data, length)
CrcCall ==
    /\ crcResult = NoCrc
    /\ crcResult' = RS485_CalculateCRC(crcData)
    /\ UNCHANGED <<mainVars, crcData, busVars, castVars>>

CrcNext == CrcExtend \/ CrcDigits \/ CrcCall

CrcInit == Init /\ myAddress = RS485_ADDR_CONTROLLER_420

CrcSpec == CrcInit /\ [][CrcNext]_vars

(***************************************************************************)
(* A node that has been running for a while: its counters and its clock    *)
(* have any of the sampled values when the master asks for its status      *)
(***************************************************************************)
\* the clock, and the counters errorCount, rxPacketCount, txPacketCount
StatusSamples ==
    { <<Tick32(0, 0), 0, 0, 0>>,
      <<Tick32(0, 4100), 1, 2, 3>>,
      <<Tick32(4, 1000), 258, 255, 255>>,
      <<Tick32(300, 7), 65536, 66000, 65535>>,
      <<Tick32(40000, 9), 16909060, 67305985, 65536>>,
      <<Tick32(65000, 100), 772, 84281096, 66052>> }

StatusInit ==
    /\ InitNode
    /\ \E s \in StatusSamples :
         /\ tick = s[1]
         /\ status = [InitStatus EXCEPT !.uptime = TickSeconds(s[1]),
                                        !.errorCount = s[2],
                                        !.rxPacketCount = s[3],
                                        !.txPacketCount = s[4]]
    /\ base = status
    /\ peer = NoPeer

\* the master sends a GET_STATUS request
StatusRequest ==
    /\ BusSend
    /\ sent'.kind = "plain"
    /\ sent'.cmd = CMD_GET_STATUS

StatusNext ==
    \/ StatusRequest
    \/ HAL_UART_RxCpltCallback
    \/ RS485_Process

StatusSpec == StatusInit /\ [][StatusNext]_vars

(***************************************************************************)
(* The framer around the wrap of the millisecond tick                      *)
(***************************************************************************)
\* HAL_GetTick() when the bytes start to arrive: at boot, and 700 ms and
\* 200 ms before the 32-bit tick wraps to 0
WrapTicks ==
    {Tick32(0, 0), Tick32(U16 - 1, U16 - 700), Tick32(U16 - 1, U16 - 200)}

WrapInit ==
    /\ InitNode
    /\ myAddress = RS485_ADDR_CONTROLLER_420
    /\ \E t \in WrapTicks :
         /\ tick = t
         /\ status = [InitStatus EXCEPT !.uptime = TickSeconds(t)]
    /\ base = status
    /\ peer = NoPeer

\* a short valid frame is put on the line, with or without garbage and a
\* pause before it and with 0 or 500 ms between its bytes
WrapBusSend ==
    /\ BusSend
    /\ sent'.kind = "plain"
    /\ Len(sent'.frame) <= 8 + MaxShortLen

WrapNext ==
    \/ WrapBusSend
    \/ HAL_UART_RxCpltCallback

WrapSpec == WrapInit /\ [][WrapNext]_vars

(***************************************************************************)
(* The struct-cast variant of rs485_protocol.c (SW_Controller_420) next to *)
(* the explicit-serialisation variant (SW_Controller_ANA)                  *)
(***************************************************************************)
\* the inputs given to both variants in one behaviour
MaxCastInputs == 2

\* the values taken for a byte the program reads without having written it:
\* the part of packet.data beyond the payload (RS485_SendPacket's
\* HAL_UART_Transmit reads three such bytes) and the byte behind
\* packetBuffer (RS485_ProcessPacket's packet->checksum reads one)
JunkFills == {<<0, 0, 0>>, <<204, 204, 204>>, <<113, 0, RS485_END_BYTE>>}
OobBytes == {0, 113}

\* the bytes of RS485_Packet_t, a packed struct: startByte, destAddr,
\* srcAddr, command, length, data[250], checksum (low byte first), endByte.
\* data holds the payload in its first `length` bytes and junk behind it.
CastStruct(call, srcAddr, junk) ==
    LET packet == [destAddr |-> call.destAddr, srcAddr |-> srcAddr,
                   command |-> call.cmd, length |-> call.length,
                   data |-> SubSeq(call.data, 1, call.length)]
        checksum == RS485_CalculateCRC(CrcBuffer(packet))
    IN  <<RS485_START_BYTE, packet.destAddr, packet.srcAddr, packet.command,
          packet.length>>
        \o [i \in 1..MAX_DATA_LENGTH |->
              IF i <= packet.length THEN packet.data[i]
              ELSE junk[((i - packet.length - 1) % 3) + 1]]
        \o <<LowByte(checksum), HighByte(checksum), RS485_END_BYTE>>

\* RS485_SendPacket of the struct-cast variant, HAL_UART_Transmit returning
\* HAL_OK: the first 5 + length + 2 + 1 bytes of the struct go to the UART
Cast_SendPacket(st, call, junk) ==
    IF call.length > MAX_DATA_LENGTH
    THEN [status |-> st, tx |-> <<>>]
    ELSE [status |-> [st EXCEPT !.txPacketCount = @ + 1],
          tx |-> <<SubSeq(CastStruct(call, myAddress, junk), 1,
                          5 + call.length + 2 + 1)>>]

\* what became of a frame handed to RS485_ProcessPacket
Verdict(out) ==
    IF out.dispatched # <<>>
    THEN IF out.dispatched[1].handler = NoHandler THEN "noHandler"
         ELSE "dispatched"
    ELSE IF out.send # <<>> THEN "checksum" ELSE "notForUs"

\* RS485_ProcessPacket of the struct-cast variant for the completed frame in
\* packetBuffer: packet->checksum is read at the struct's offsets 255 and
\* 256, that is packetBuffer[255] (the frame's own byte only if the frame
\* has 256 bytes, else what an earlier frame left there: b255) and the byte
\* behind the 256-byte buffer (oob)
Cast_ProcessPacket(buffer, b255, oob, st) ==
    LET length == buffer[5]
        checksum == (IF Len(buffer) >= RS485_MAX_PACKET_SIZE
                     THEN buffer[RS485_MAX_PACKET_SIZE] ELSE b255) + 256 * oob
    IN  IF CalculatedCRC(buffer, length) # checksum
        THEN ChecksumMismatch(st, buffer[3])
        ELSE IF ~IsForUs(buffer[2])
        THEN [status |-> st, send |-> <<>>, dispatched |-> <<>>]
        ELSE Dispatch(st, buffer)

\* the frames given to both variants: valid short frames from the GUI for
\* this node, for another node and for all, with and without a handler for
\* the command, one with a wrong checksum, and a valid frame of 256 bytes
CastFrames ==
    {SenderFrame(dest, RS485_ADDR_GUI, cmd, Payload(n)) :
        dest \in {RS485_ADDR_BROADCAST, RS485_ADDR_CONTROLLER_420,
                  RS485_ADDR_CONTROLLER_DIO},
        cmd \in FewCmds, n \in {0, MaxShortLen}}
    \cup {[SenderFrame(RS485_ADDR_CONTROLLER_420, RS485_ADDR_GUI, CMD_PING, <<>>)
             EXCEPT ![6] = FlipBit(@, 0)],
          SenderFrame(RS485_ADDR_CONTROLLER_420, RS485_ADDR_GUI, CMD_PING,
                      Payload(RS485_MAX_PACKET_SIZE - 8))}

\* the RS485_SendPacket calls given to both variants
CastCalls ==
    {SendCall(RS485_ADDR_GUI, CMD_READ_DI, Payload(n), n) :
        n \in {0, MaxShortLen, MAX_DATA_LENGTH - 1, MAX_DATA_LENGTH,
               MAX_DATA_LENGTH + 1}}

CastInit ==
    /\ InitNode
    /\ myAddress = RS485_ADDR_CONTROLLER_420
    /\ status = InitStatus
    /\ base = status
    /\ tick = Tick32(0, 0)
    /\ peer = NoPeer

\* a frame arrives, byte after byte with no pause, at both variants, whose
\* framers are Idle: both hand the buffer to their RS485_ProcessPacket, and
\* send the reply, if any
CastReceive ==
    /\ castSeen < MaxCastInputs
    /\ \E frame \in CastFrames :
         \E a \in {RS485_ProcessPacket(frame, status)} :
         \E aSent \in {SendAll(a.status, a.send, TxBuffers(a.send, 1),
                               [i \in 1..Len(a.send) |-> "HAL_OK"], 1)} :
         \E oob \in OobBytes :
         \E c \in {Cast_ProcessPacket(frame, castBuf255, oob, castStatus)} :
         \E junk \in JunkFills :
         \E cSent \in {IF c.send = <<>>
                       THEN [status |-> c.status, tx |-> <<>>]
                       ELSE Cast_SendPacket(c.status, c.send[1], junk)} :
             /\ status' = aSent.status
             /\ anaOut' = [tx |-> [i \in 1..Len(aSent.tx) |-> aSent.tx[i].buf],
                           verdict |-> Verdict(a)]
             /\ castStatus' = cSent.status
             /\ castOut' = [tx |-> cSent.tx, verdict |-> Verdict(c)]
             /\ castBuf255' = IF Len(frame) >= RS485_MAX_PACKET_SIZE
                              THEN frame[RS485_MAX_PACKET_SIZE]
                              ELSE castBuf255
    /\ castSeen' = castSeen + 1
    /\ UNCHANGED <<myAddress, commandHandlers, txInProgress, comPin, rxneIT,
                   packetBuffer, packetIndex, expectedLength, lastByteTime,
                   outputStates, tick, rxLine, sent, txLog, frameLog,
                   dispatchLog, base, regLog, txJob, opLog, tcWait, codecVars,
                   busVars>>

\* the application of both variants calls RS485_SendPacket with the same
\* arguments
CastSend ==
    /\ castSeen < MaxCastInputs
    /\ \E call \in CastCalls :
         \E a \in {RS485_SendPacket(status, call, SendFrame(call), "HAL_OK")} :
         \E junk \in JunkFills :
         \E c \in {Cast_SendPacket(castStatus, call, junk)} :
             /\ status' = a.status
             /\ anaOut' = [tx |-> [i \in 1..Len(a.tx) |-> a.tx[i].buf],
                           verdict |-> "sent"]
             /\ castStatus' = c.status
             /\ castOut' = [tx |-> c.tx, verdict |-> "sent"]
    /\ castSeen' = castSeen + 1
    /\ UNCHANGED <<myAddress, commandHandlers, txInProgress, comPin, rxneIT,
                   packetBuffer, packetIndex, expectedLength, lastByteTime,
                   outputStates, tick, rxLine, sent, txLog, frameLog,
                   dispatchLog, base, regLog, txJob, opLog, tcWait, codecVars,
                   busVars, castBuf255>>

CastNext == CastReceive \/ CastSend

CastSpec == CastInit /\ [][CastNext]_vars

(***************************************************************************)
(* Two nodes on one bus with a master. The variables of the node hold the  *)
(* node whose step is taken next, peer holds the other one. The interrupt  *)
(* of a node takes a byte and, if it answers, enables its driver; the      *)
(* transmission of the answer ends in a later step, so that what the other *)
(* node does in the meantime is visible. In this specification every       *)
(* transmitter completes.                                                  *)
(***************************************************************************)
MaxChain == 3

\* the node, as a record
Focus ==
    [myAddress |-> myAddress, commandHandlers |-> commandHandlers,
     status |-> status, txInProgress |-> txInProgress, comPin |-> comPin,
     rxneIT |-> rxneIT, packetBuffer |-> packetBuffer,
     packetIndex |-> packetIndex, expectedLength |-> expectedLength,
     lastByteTime |-> lastByteTime, rxLine |-> rxLine, txLog |-> txLog,
     reply |-> reply]

\* the variables of the node become those of n
Install(n) ==
    /\ myAddress' = n.myAddress
    /\ commandHandlers' = n.commandHandlers
    /\ status' = n.status
    /\ txInProgress' = n.txInProgress
    /\ comPin' = n.comPin
    /\ rxneIT' = n.rxneIT
    /\ packetBuffer' = n.packetBuffer
    /\ packetIndex' = n.packetIndex
    /\ expectedLength' = n.expectedLength
    /\ lastByteTime' = n.lastByteTime
    /\ rxLine' = n.rxLine
    /\ txLog' = n.txLog
    /\ reply' = n.reply

\* the node that stepped is left as me and the other one as other; either
\* of them takes the next step
Turn(me, other) ==
    \E swap \in BOOLEAN :
       IF swap THEN Install(other) /\ peer' = me
       ELSE Install(me) /\ peer' = other

\* RS485_Init on controller 420 and on controller DIO
BusInit ==
    /\ InitNode
    /\ myAddress = RS485_ADDR_CONTROLLER_420
    /\ status = InitStatus
    /\ base = status
    /\ tick = Tick32(0, 0)
    /\ peer = [Focus EXCEPT
                 !.myAddress = RS485_ADDR_CONTROLLER_DIO,
                 !.status = [InitStatus EXCEPT !.mcuId = RS485_ADDR_CONTROLLER_DIO]]

\* the frames of the master: short valid frames for every destination, and
\* the same with a bit of the checksum flipped
MasterInputs ==
    {sc \in FewFrames \cup BadCrcInputs : Len(sc.frame) <= 8 + MaxShortLen}

\* the master sends a frame on the silent bus: both nodes will receive it
MasterFrame ==
    /\ HasPeer
    /\ sent.kind = "none"
    /\ \E sc \in MasterInputs :
         /\ sent' = sc
         /\ rxLine' = sc.frame
         /\ peer' = [peer EXCEPT !.rxLine = sc.frame]
    /\ UNCHANGED <<nodeVars, tick, txLog, frameLog, dispatchLog, base, regLog,
                   txJob, opLog, tcWait, codecVars, reply,
                   castVars>>

\* the receive interrupt of the node delivers the next byte: the callback,
\* RS485_ProcessReceivedByte and, when the byte completes a frame that is
\* answered, the statements of RS485_SendPacket up to HAL_UART_Transmit
BusRx ==
    /\ HasPeer
    /\ rxLine # <<>>
    /\ rxneIT
    /\ \E f \in {IF RxIgnored
                  THEN [buffer |-> packetBuffer, index |-> packetIndex,
                        expected |-> expectedLength, status |-> status,
                        send |-> <<>>]
                  ELSE RS485_ProcessReceivedByte(Head(rxLine), tick)} :
         LET line == IF f.send = <<>> THEN Line
                     ELSE RunSendSteps(BeforeWaitTC, 1, Line)
         IN  Turn([Focus EXCEPT !.rxLine = Tail(rxLine),
                                !.packetBuffer = f.buffer,
                                !.packetIndex = f.index,
                                !.expectedLength = f.expected,
                                !.lastByteTime = IF RxIgnored THEN @ ELSE tick,
                                !.status = f.status,
                                !.txInProgress = line.txInProgress,
                                !.rxneIT = line.rxneIT,
                                !.comPin = line.comPin,
                                !.reply = f.send],
                  peer)
    /\ UNCHANGED <<outputStates, tick, sent, frameLog, dispatchLog, base, regLog,
                   txJob, opLog, tcWait, codecVars, castVars>>

\* the bytes that the transmissions tx put on the bus
RECURSIVE Wire(_, _)
Wire(tx, i) ==
    IF i > Len(tx) THEN <<>>
    ELSE (IF tx[i].result = "HAL_OK" THEN tx[i].buf ELSE <<>>) \o Wire(tx, i + 1)

\* HAL_UART_Transmit of the node's answer returns and the call runs to its
\* end, once the other node has taken what was on the bus before; the other
\* node hears the frame unless it is transmitting itself
BusTxDone ==
    /\ HasPeer
    /\ reply # <<>>
    /\ peer.rxLine = <<>> \/ peer.reply # <<>>
    /\ Len(txLog) + Len(peer.txLog) < MaxChain
    /\ \E txBuffers \in {TxBuffers(reply, 1)} :
         \E results \in [1..Len(reply) -> HalResults] :
            LET r == SendAll(status, reply, txBuffers, results, 1)
                line == RunSendSteps(SendSteps, 1, Line)
            IN  Turn([Focus EXCEPT !.status = r.status,
                                   !.txLog = txLog \o r.tx,
                                   !.txInProgress = line.txInProgress,
                                   !.rxneIT = line.rxneIT,
                                   !.comPin = line.comPin,
                                   !.reply = <<>>],
                     IF peer.reply = <<>>
                     THEN [peer EXCEPT !.rxLine = @ \o Wire(r.tx, 1)]
                     ELSE peer)
    /\ UNCHANGED <<outputStates, tick, sent, frameLog, dispatchLog, base, regLog,
                   txJob, opLog, tcWait, codecVars, castVars>>

BusNext ==
    \/ MasterFrame
    \/ BusRx
    \/ BusTxDone

BusSpec == BusInit /\ [][BusNext]_vars

(***************************************************************************)
(* Properties                                                              *)
(*                                                                         *)
(* Every behaviour handles one input: a byte stream put on the bus         *)
(* (BusSend) and received byte by byte, or one RS485_SendPacket call of    *)
(* the application (AppSend). sent describes the input, base is the status *)
(* before it, and txLog, frameLog and dispatchLog record what the node did *)
(* with it.                                                                *)
(***************************************************************************)
\* the packet carried by the valid frame the input was built from
SentPacket ==
    [destAddr |-> sent.dest, srcAddr |-> sent.src, command |-> sent.cmd,
     length |-> Len(sent.data), data |-> sent.data]

\* a command handler was called
HandlerRan == \E i \in 1..Len(dispatchLog) : dispatchLog[i].handler # NoHandler

\* the whole input has been received
StreamDone == sent.kind # "none" /\ sent.kind # "appSend" /\ rxLine = <<>>

\* C1: a frame emitted by RS485_SendPacket with a payload of 0..250 bytes,
\* fed byte by byte without a gap above 500 ms to the Idle framer of the
\* node it is addressed to, is dispatched exactly once, with the
\* destination, source, command, length and payload that were sent.
\* Refuted: a frame of 257 or 258 bytes (N = 249, 250) is never dispatched.
C1_RoundTrip ==
    (StreamDone /\ sent.kind = "plain" /\ sent.pre = <<>>
        /\ sent.dest = myAddress /\ Len(sent.data) <= 250)
    => (Len(dispatchLog) = 1 /\ dispatchLog[1].packet = SentPacket)

\* C2: RS485_SendPacket(dest, cmd, data, N) with N <= 250 writes exactly
\* one frame of 8+N bytes to the UART: 0xAA, dest, the node's own address,
\* cmd, N, the payload in order, the CRC16 over {dest, source, cmd, N,
\* payload} low byte first, and 0x55.
C2_WireFormat ==
    (sent.kind = "appSend" /\ sent.ret # "none" /\ Len(sent.data) <= 250)
    => /\ Len(txLog) = 1
       /\ LET N == Len(sent.data)
              crc == RS485_CalculateCRC(
                         <<sent.dest, myAddress, sent.cmd, N>> \o sent.data)
          IN  /\ Len(txLog[1].buf) = 8 + N
              /\ txLog[1].buf =
                     <<170, sent.dest, myAddress, sent.cmd, N>> \o sent.data
                     \o <<crc % 256, crc \div 256, 85>>

\* C2 happens: a call with the longest payload, 250 bytes, was transmitted
C2_Witness ==
    /\ sent.kind = "appSend"
    /\ Len(sent.data) = 250
    /\ Len(txLog) = 1
    /\ Len(txLog[1].buf) = 258
    /\ txLog[1].result = "HAL_OK"
    /\ sent.ret = "HAL_OK"

\* C3: a node with address A that receives a valid PING (0x01, length 0)
\* from S addressed to A hands exactly one frame to the UART,
\* AA S A 02 00 crc_lo crc_hi 55; for A = 0x02 and S = 0x10 the frame
\* AA 02 10 01 00 01 C9 55 is answered by AA 10 02 02 00 A4 44 55.
\* (PING bound to the handler RS485_Init installs.)
C3_PingScenario ==
    (StreamDone /\ sent.kind = "plain" /\ sent.pre = <<>> /\ sent.cmd = 1
        /\ sent.data = <<>> /\ sent.dest = myAddress
        /\ commandHandlers[1] = "RS485_HandlePing")
    => /\ Len(txLog) = 1
       /\ LET crc == RS485_CalculateCRC(<<sent.src, myAddress, 2, 0>>)
          IN  txLog[1].buf = <<170, sent.src, myAddress, 2, 0,
                               crc % 256, crc \div 256, 85>>
       /\ (myAddress = 2 /\ sent.src = 16)
          => (/\ sent.frame = <<170, 2, 16, 1, 0, 1, 201, 85>>
              /\ txLog[1].buf = <<170, 16, 2, 2, 0, 164, 68, 85>>)

\* C3 happens: node 0x02 has received the PING of 0x10 and answered it
C3_Witness ==
    /\ StreamDone
    /\ myAddress = 2
    /\ sent.frame = <<170, 2, 16, 1, 0, 1, 201, 85>>
    /\ Len(txLog) = 1
    /\ txLog[1].result = "HAL_OK"
    /\ status.txPacketCount = base.txPacketCount + 1

\* the checksum carried by a complete frame buf is the CRC16 over its
\* destination, source, command, length and payload
FrameChecksumOk(buf) ==
    LET crc == RS485_CalculateCRC(SubSeq(buf, 2, 5 + buf[5]))
    IN  buf[6 + buf[5]] = crc % 256 /\ buf[7 + buf[5]] = crc \div 256

\* exactly one frame was completed since the input was put on the line, and
\* it ends with 0x55: RS485_ProcessPacket was called once, with frameLog[1]
OneFrameProcessed ==
    Len(frameLog) = 1 /\ frameLog[1][Len(frameLog[1])] = 85

\* the ERROR_RESPONSE frame of this node to dest with error code code
ErrorFrame(dest, code) ==
    LET crc == RS485_CalculateCRC(<<dest, myAddress, 255, 2, code, myAddress>>)
    IN  <<170, dest, myAddress, 255, 2, code, myAddress,
          crc % 256, crc \div 256, 85>>

\* C4: a complete, checksum-valid frame addressed to the node or to
\* broadcast whose command has no registered handler invokes no handler and
\* makes the node send exactly one ERROR_RESPONSE (0xFF) to the frame's
\* source, from its own address, with payload [0x03, own address].
C4_DispatchDefault ==
    (/\ OneFrameProcessed
     /\ frameLog[1][2] \in {myAddress, 0}
     /\ commandHandlers[frameLog[1][4]] = NoHandler
     /\ FrameChecksumOk(frameLog[1]))
    => /\ ~HandlerRan
       /\ Len(txLog) = 1
       /\ txLog[1].buf = ErrorFrame(frameLog[1][3], 3)

\* C4 happens: a broadcast READ_DI frame with 248 payload bytes, the longest
\* that fits the receive buffer, was answered with the error response
C4_Witness ==
    /\ StreamDone
    /\ sent.kind = "plain"
    /\ frameLog = <<sent.frame>>
    /\ sent.dest = 0
    /\ sent.cmd = 32
    /\ Len(sent.data) = 248
    /\ Len(txLog) = 1
    /\ txLog[1].buf[4] = 255

\* C5: a complete, checksum-valid frame whose destination is neither the
\* node's address nor broadcast invokes no handler, leaves rxPacketCount and
\* errorCount unchanged and causes no transmission.
C5_AddressingFilter ==
    (/\ OneFrameProcessed
     /\ frameLog[1][2] # myAddress
     /\ frameLog[1][2] # 0
     /\ FrameChecksumOk(frameLog[1]))
    => /\ dispatchLog = <<>>
       /\ status.rxPacketCount = base.rxPacketCount
       /\ status.errorCount = base.errorCount
       /\ txLog = <<>>

\* C5 happens: a valid PING for controller 0x03 went through the framer of
\* another node
C5_Witness ==
    /\ StreamDone
    /\ sent.kind = "plain"
    /\ frameLog = <<sent.frame>>
    /\ sent.dest = 3
    /\ sent.cmd = 1
    /\ myAddress # 3
    /\ status.rxPacketCount = base.rxPacketCount
    /\ status.errorCount = base.errorCount
    /\ txLog = <<>>

\* what C6 states of a processed frame whose checksum does not match, but
\* for the error count
ChecksumRejected ==
    /\ dispatchLog = <<>>
    /\ status.rxPacketCount = base.rxPacketCount
    /\ Len(txLog) = 1
    /\ txLog[1].buf = ErrorFrame(frameLog[1][3], 1)

\* C6 as stated: a complete frame that ends with 0x55 but whose checksum
\* differs from the recomputed one is not dispatched, does not increment
\* rxPacketCount, increments errorCount by one and is answered with an
\* ERROR_RESPONSE with code 0x01 sent to the frame's source field.
\* Refuted: errorCount rises by two when the reply's transmission fails.
C6_Original ==
    (OneFrameProcessed /\ ~FrameChecksumOk(frameLog[1]))
    => (ChecksumRejected /\ status.errorCount = base.errorCount + 1)

\* C6, amended: ... errorCount rises by one for the mismatch, and by one
\* more when HAL_UART_Transmit does not return HAL_OK for the reply and the
\* send gets past its wait for the TC flag.
C6_ChecksumMismatch ==
    (OneFrameProcessed /\ ~FrameChecksumOk(frameLog[1]))
    => /\ ChecksumRejected
       /\ status.errorCount = base.errorCount + 1
              + (IF txLog[1].result = "HAL_OK" \/ tcWait = "isr" THEN 0 ELSE 1)

\* C6 happens: a frame for another node with a corrupted checksum byte was
\* answered, and the transmission of the answer failed
C6_Witness ==
    /\ StreamDone
    /\ sent.kind = "badCrc"
    /\ frameLog = <<sent.frame>>
    /\ sent.dest \notin {myAddress, 0}
    /\ Len(txLog) = 1
    /\ txLog[1].result = "HAL_TIMEOUT"
    /\ status.errorCount = base.errorCount + 2

\* C7 as stated: flipping one bit of the destination, source, command,
\* length or a payload byte of a valid frame makes the checksum check fail
\* and no handler is dispatched.
\* Refuted: a flipped length bit moves the end of the frame, so that the
\* checksum check is not reached or is made on another byte range.
C7_Original ==
    (StreamDone /\ sent.kind = "flip")
    => (OneFrameProcessed /\ ChecksumRejected /\ ~HandlerRan)

\* C7, amended: flipping one bit of the destination, source, command or a
\* payload byte (not the length, not the sentinels) of a valid frame
\* dispatches nothing; if the frame has at most 256 bytes the checksum check
\* is made on it and fails (a longer one is dropped by the overflow guard
\* before any check).
C7_CorruptionRejection ==
    (StreamDone /\ sent.kind = "flip" /\ sent.pos # 4)
    => /\ dispatchLog = <<>>
       /\ Len(sent.frame) <= 256
          => (/\ frameLog = <<sent.frame>>
              /\ ChecksumRejected
              /\ status.errorCount > base.errorCount)

\* C7 happens: a frame with a flipped payload bit was received and rejected
C7_Witness ==
    /\ StreamDone
    /\ sent.kind = "flip"
    /\ sent.pos = 5
    /\ sent.dest = myAddress
    /\ frameLog = <<sent.frame>>
    /\ Len(txLog) = 1
    /\ txLog[1].buf[6] = 1

\* the next byte arrives at the expected total length 8 + length of the
\* frame being collected, in time
AtExpectedEnd ==
    /\ rxLine # <<>>
    /\ txInProgress = 0
    /\ packetIndex >= 7
    /\ packetIndex + 1 = 8 + expectedLength
    /\ NextGap <= 500

\* C8: when the byte at the expected total length (8 + length) is not 0x55,
\* the frame is discarded: errorCount increases by exactly one, nothing is
\* transmitted, no packet is dispatched and the framer is Idle afterwards.
C8_WrongEndSentinel ==
    [][(AtExpectedEnd /\ Head(rxLine) # 85)
       => /\ status'.errorCount = status.errorCount + 1
          /\ status'.rxPacketCount = status.rxPacketCount
          /\ txLog' = txLog
          /\ dispatchLog' = dispatchLog
          /\ packetIndex' = 0
          /\ expectedLength' = 0]_vars

\* C8 happens: an 8-byte frame with length 0 and a wrong last byte was
\* received
C8_Witness ==
    /\ StreamDone
    /\ sent.kind = "badEnd"
    /\ Len(sent.frame) = 8
    /\ sent.frame[5] = 0
    /\ frameLog = <<sent.frame>>
    /\ status.errorCount = base.errorCount + 1
    /\ txLog = <<>>
    /\ packetIndex = 0

\* the number of transmissions for which HAL_UART_Transmit failed, each
\* counted in errorCount by RS485_SendPacket
RECURSIVE TxFailures(_)
TxFailures(log) ==
    IF log = <<>> THEN 0
    ELSE (IF Head(log).result = "HAL_OK" THEN 0 ELSE 1) + TxFailures(Tail(log))

\* C9: a start sentinel, a gap of more than 500 ms, then a valid frame
\* addressed to the node: the frame is parsed and dispatched, and errorCount
\* increases by exactly one for the abandoned first frame (beside what a
\* failed transmission of the reply adds).
\* Refuted: the timeout reset does not count an error.
C9_TimeoutResync ==
    (StreamDone /\ sent.kind = "plain" /\ sent.pre = <<170>>
        /\ sent.pause > 500 /\ sent.dest = myAddress)
    => /\ Len(dispatchLog) = 1
       /\ dispatchLog[1].packet = SentPacket
       /\ status.errorCount = base.errorCount + 1 + TxFailures(txLog)

\* no byte of a sequence is the start sentinel
NoStartByte(bytes) == \A i \in 1..Len(bytes) : bytes[i] # 170

\* C10 as stated: after any garbage fed to an Idle framer, a valid frame
\* that follows without a gap and is addressed to the node is extracted and
\* dispatched.
\* Refuted: a garbage byte 0xAA starts a frame that swallows the valid one.
C10_Original ==
    (StreamDone /\ sent.kind = "plain" /\ sent.pre # <<>> /\ sent.pause = 0
        /\ sent.dest = myAddress)
    => (Len(dispatchLog) = 1 /\ dispatchLog[1].packet = SentPacket)

\* C10, amended: after garbage without a byte 0xAA, a valid frame of at most
\* 256 bytes that follows without a gap and is addressed to the node is
\* extracted and dispatched; a longer frame is not dispatched.
C10_GarbageResync ==
    (StreamDone /\ sent.kind = "plain" /\ sent.pre # <<>> /\ sent.pause = 0
        /\ sent.dest = myAddress /\ NoStartByte(sent.pre))
    => IF Len(sent.frame) <= 256
       THEN /\ frameLog = <<sent.frame>>
            /\ Len(dispatchLog) = 1
            /\ dispatchLog[1].packet = SentPacket
       ELSE dispatchLog = <<>>

\* C10 happens: the garbage 00 55 was followed by a PING for the node, and
\* the ping handler was called
C10_Witness ==
    /\ StreamDone
    /\ sent.kind = "plain"
    /\ sent.pre = <<0, 85>>
    /\ sent.pause = 0
    /\ sent.dest = myAddress
    /\ Len(dispatchLog) = 1
    /\ dispatchLog[1].handler = "RS485_HandlePing"

\* the payload of the one frame the node transmitted
ReplyPayload == SubSeq(txLog[1].buf, 6, 5 + txLog[1].buf[5])

\* the first frame a freshly initialised node receives is a valid GET_STATUS
\* addressed to it, and it has been received
FirstFrameIsGetStatus ==
    /\ StreamDone
    /\ sent.kind = "plain"
    /\ sent.pre = <<>>
    /\ sent.cmd = 16
    /\ sent.dest = myAddress
    /\ base.errorCount = 0 /\ base.rxPacketCount = 0 /\ base.txPacketCount = 0

\* C11 as stated: the first frame a freshly initialised node receives, a
\* valid GET_STATUS addressed to it, is answered with the 16-byte payload
\* [nodeAddress, 100, uptime (4 bytes), 0,0,0,0, 0,0,0,0, 0,0].
\* Refuted: the request itself is counted before the handler runs, so the
\* rxCount field is 1.
C11_Original ==
    FirstFrameIsGetStatus
    => /\ Len(txLog) = 1
       /\ Len(ReplyPayload) = 16
       /\ SubSeq(ReplyPayload, 1, 2) = <<myAddress, 100>>
       /\ SubSeq(ReplyPayload, 7, 16) = <<0, 0, 0, 0, 0, 0, 0, 0, 0, 0>>

\* C11, amended: the answer is one STATUS_RESPONSE (0x11) to the source with
\* the 16-byte payload [nodeAddress, 100, uptime (4 bytes, little-endian,
\* the seconds of the last RS485_Process call), 0,0,0,0 (errorCount),
\* 1,0,0,0 (rxCount, the request included), 0,0 (txCount)].
C11_GetStatus ==
    FirstFrameIsGetStatus
    => /\ Len(txLog) = 1
       /\ SubSeq(txLog[1].buf, 1, 5) = <<170, sent.src, myAddress, 17, 16>>
       /\ \E u \in 0..(tick[2] \div 1000) :
            ReplyPayload = <<myAddress, 100, u, 0, 0, 0, 0, 0, 0, 0,
                             1, 0, 0, 0, 0, 0>>

\* C11 happens: a GET_STATUS was answered by a node whose uptime was not 0
C11_Witness ==
    /\ FirstFrameIsGetStatus
    /\ Len(txLog) = 1
    /\ txLog[1].result = "HAL_OK"
    /\ txLog[1].buf[4] = 17
    /\ txLog[1].buf[8] > 0

\* C12: a byte delivered to HAL_UART_RxCpltCallback while txInProgress is
\* set, between its setting and its clearing by an RS485_SendPacket call
\* that the interrupt interleaves with, is not passed to the framer: the
\* partial-frame buffer, the byte index, the expected length and the status
\* counters are unchanged, and nothing is dispatched or transmitted.
C12_LoopbackSuppression ==
    [][(txInProgress = 1 /\ rxLine # <<>> /\ rxLine' = Tail(rxLine))
       => /\ packetBuffer' = packetBuffer
          /\ packetIndex' = packetIndex
          /\ expectedLength' = expectedLength
          /\ status' = status
          /\ frameLog' = frameLog
          /\ dispatchLog' = dispatchLog
          /\ txLog' = txLog]_vars

\* the bytes of the input that were delivered but are neither in the
\* partial-frame buffer nor in a completed frame
BytesIgnored == Len(sent.frame) - Len(rxLine) - packetIndex

\* C12 happens: the application's call has set txInProgress and not yet
\* masked the receive interrupt, and a byte that arrived since was ignored
C12_Witness ==
    /\ sent.kind = "concurrent"
    /\ txJob.state = "running"
    /\ txJob.pc = 1
    /\ txInProgress = 1
    /\ rxneIT
    /\ frameLog = <<>>
    /\ BytesIgnored > 0

\* C13: an RS485_SendPacket call with length <= 250 executes, in this order
\* and each once: set txInProgress, mask the receive interrupt, assert
\* driver-enable, settling delay, write the frame, wait for transmission
\* complete, settling delay, de-assert driver-enable, unmask the receive
\* interrupt, clear txInProgress, and only then update txPacketCount or
\* errorCount.
C13_SendSequence ==
    LET want == <<"SetTxInProgress", "DisableRxIT", "ComPinSet", "SettleDelay",
                  "Transmit", "WaitTC", "SettleDelay", "ComPinReset",
                  "EnableRxIT", "ClearTxInProgress", "Count">>
        up(i) == [txInProgress |-> IF i \in 1..9 THEN 1 ELSE 0,
                  rxneIT |-> i \notin 2..8,
                  comPin |-> IF i \in 3..7 THEN "SET" ELSE "RESET"]
    IN  /\ txJob.state = "running" => Len(opLog) = txJob.pc /\ txJob.pc < 11
        /\ (txJob.state = "returned" /\ txJob.call.length <= 250)
           => Len(opLog) = 11
        /\ \A i \in 1..Len(opLog) :
             /\ i <= 11
             /\ opLog[i].op = want[i]
             /\ opLog[i].line = up(i)
             /\ (sent.kind = "appSend")
                => /\ opLog[i].written = (IF i >= 5 THEN 1 ELSE 0)
                   /\ i < 11 => /\ opLog[i].txPacketCount = base.txPacketCount
                                /\ opLog[i].errorCount = base.errorCount
                   /\ i = 11 => opLog[i].txPacketCount + opLog[i].errorCount
                                = base.txPacketCount + base.errorCount + 1

\* C13 happens: a call with a 250-byte payload has run through the sequence
C13_Witness ==
    /\ sent.kind = "appSend"
    /\ txJob.state = "returned"
    /\ txJob.call.length = 250
    /\ Len(opLog) = 11
    /\ txJob.ret = "HAL_OK"
    /\ status.txPacketCount = base.txPacketCount + 1

\* C14: when HAL_UART_Transmit reports a failure, RS485_SendPacket still
\* returns the line to receive mode (driver-enable low, receive interrupt
\* unmasked, txInProgress cleared), increments errorCount by exactly one,
\* leaves txPacketCount unchanged, returns the failure, has written the
\* frame once (no retry), and a frame that arrives afterwards is accepted.
C14_TransmitFailure ==
    /\ (txJob.state = "running" /\ txJob.result \in HalResults \ {"HAL_OK"})
       => tcWait # "main"
    /\ (txJob.state = "returned" /\ txJob.result \in HalResults \ {"HAL_OK"})
       => /\ txInProgress = 0 /\ rxneIT /\ comPin = "RESET"
          /\ txJob.ret = txJob.result
          /\ Len(opLog) = 11
          /\ opLog[11].errorCount = opLog[11].was.errorCount + 1
          /\ opLog[11].txPacketCount = opLog[11].was.txPacketCount
          /\ opLog[5].written = opLog[4].written + 1
          /\ opLog[10].written = opLog[5].written
          /\ sent.kind = "appSend"
             => /\ Len(txLog) = 1
                /\ status.errorCount = base.errorCount + 1
                /\ status.txPacketCount = base.txPacketCount
          /\ (sent.kind = "concurrent" /\ rxLine = <<>>
                /\ opLog[11].rxLeft = Len(sent.frame))
             => /\ frameLog = <<sent.frame>>
                /\ Len(dispatchLog) = 1
                /\ dispatchLog[1].packet = SentPacket

\* C14 happens: the application's transmission timed out, and the PING that
\* arrived after the call returned was dispatched
C14_Witness ==
    /\ sent.kind = "concurrent"
    /\ txJob.state = "returned"
    /\ txJob.ret = "HAL_TIMEOUT"
    /\ rxLine = <<>>
    /\ opLog[11].rxLeft = Len(sent.frame)
    /\ Len(dispatchLog) = 1
    /\ dispatchLog[1].handler = "RS485_HandlePing"

\* C15: every received byte makes the node transmit at most one frame, and
\* only when it completes a frame: each received frame is answered by at
\* most one of a handler response, an invalid-command error or an
\* invalid-checksum error, for the built-in handlers and the registered
\* HandleWriteDO and HandleReadDO; on a bus-driven node there are never more
\* frames transmitted than received.
C15_OneReply ==
    [][(rxLine # <<>> /\ rxLine' = Tail(rxLine))
       => /\ Len(txLog') <= Len(txLog) + 1
          /\ Len(frameLog') <= Len(frameLog) + 1
          /\ txLog' # txLog => Len(frameLog') = Len(frameLog) + 1
          /\ sent.kind \notin {"appSend", "concurrent"}
             => Len(txLog') <= Len(frameLog')]_vars

\* C15 happens: controller OUT, with the handlers its main registers, has
\* received a WRITE_DO and a READ_DO and answered each once, the second with
\* the outputs the first one set
C15_Witness ==
    /\ sent.kind = "pair"
    /\ rxLine = <<>>
    /\ Len(frameLog) = 2
    /\ Len(dispatchLog) = 2
    /\ dispatchLog[1].handler = "HandleWriteDO"
    /\ dispatchLog[2].handler = "HandleReadDO"
    /\ Len(txLog) = 2
    /\ txLog[1].buf[4] = CMD_DO_RESPONSE /\ txLog[1].buf[5] = 0
    /\ SubSeq(txLog[2].buf, 4, 12) = <<CMD_DO_RESPONSE, 7, 85, 170, 0, 0, 0, 0, 0>>

\* C16: a frame that the framer completes with the end sentinel 0x55 and
\* whose destination field is neither the node's address nor broadcast is
\* ignored whatever its other contents, a mismatching checksum included:
\* nothing is dispatched or transmitted, and no counter changes.
\* Refuted: the checksum is tested before the destination, so a frame for
\* another node with a wrong checksum is counted and answered.
C16_RoutingNonEvent ==
    (StreamDone /\ sent.kind \in {"plain", "badCrc", "flip"} /\ sent.pre = <<>>
        /\ frameLog = <<sent.frame>>
        /\ sent.frame[Len(sent.frame)] = RS485_END_BYTE
        /\ sent.frame[2] \notin {myAddress, RS485_ADDR_BROADCAST})
    => /\ txLog = <<>>
       /\ dispatchLog = <<>>
       /\ status.errorCount = base.errorCount
       /\ status.rxPacketCount = base.rxPacketCount
       /\ status.txPacketCount = base.txPacketCount

\* the bytes of the input frame delivered so far
BytesDelivered == Len(sent.pre) + Len(sent.frame) - Len(rxLine)

\* C17: whenever a byte can be stored (no callback is under way) the index
\* at which it is stored into the 256-byte buffer is in 0..255, and the
\* buffer always holds as many bytes as the index says; when the
\* 256 first bytes of a frame that needs more have been received, nothing
\* was dispatched or transmitted, errorCount has increased by exactly one
\* and the framer is Idle; no frame whose length field exceeds 250 is ever
\* handed to the dispatcher or dispatched.
C17_OverflowGuard ==
    /\ tcWait # "isr" => packetIndex \in 0..(RS485_MAX_PACKET_SIZE - 1)
    /\ Len(packetBuffer) = packetIndex
    /\ (sent.kind \in {"plain", "overLen"} /\ sent.pre = <<>> /\ sent.gap = 0
          /\ 8 + sent.frame[5] > RS485_MAX_PACKET_SIZE
          /\ BytesDelivered >= RS485_MAX_PACKET_SIZE)
       => /\ dispatchLog = <<>>
          /\ frameLog = <<>>
          /\ txLog = <<>>
          /\ status.errorCount = base.errorCount + 1
          /\ status.rxPacketCount = base.rxPacketCount
          /\ BytesDelivered = RS485_MAX_PACKET_SIZE
             => packetIndex = 0 /\ expectedLength = 0 /\ packetBuffer = <<>>
    /\ \A i \in 1..Len(frameLog) : frameLog[i][5] <= MAX_DATA_LENGTH
    /\ \A i \in 1..Len(dispatchLog) : dispatchLog[i].packet.length <= MAX_DATA_LENGTH

\* C17 happens: 256 bytes of a frame with the length field 255 have been
\* received and discarded
C17_Witness ==
    /\ sent.kind = "overLen"
    /\ sent.frame[5] = 255
    /\ BytesDelivered = RS485_MAX_PACKET_SIZE
    /\ packetIndex = 0
    /\ status.errorCount = base.errorCount + 1
    /\ txLog = <<>>

RECURSIVE LastRegistered(_, _)
LastRegistered(cmd, log) ==
    IF log = <<>>
    THEN CASE cmd = 1 -> "RS485_HandlePing"
           [] cmd = 3 -> "RS485_HandleGetVersion"
           [] cmd = 5 -> "RS485_HandleHeartbeat"
           [] cmd = 16 -> "RS485_HandleGetStatus"
           [] OTHER -> "NULL"
    ELSE IF log[Len(log)][1] = cmd THEN log[Len(log)][2]
    ELSE LastRegistered(cmd, SubSeq(log, 1, Len(log) - 1))

\* C19: every command is bound to the handler of the last
\* RS485_RegisterCommandHandler call made for it and, if there was none, to
\* what RS485_Init left (the built-in handlers for PING, GET_VERSION,
\* HEARTBEAT and GET_STATUS, nothing otherwise); a frame that is dispatched
\* invokes the handler last registered for its command. (The 256 bindings
\* are compared whenever the line is empty: before an input, after each
\* registration, during a call of the application and after the input.)
C19_Registry ==
    /\ rxLine = <<>>
       => \A cmd \in Byte : commandHandlers[cmd] = LastRegistered(cmd, regLog)
    /\ \A i \in 1..Len(dispatchLog) :
         dispatchLog[i].handler
           = LastRegistered(dispatchLog[i].packet.command, regLog)

\* C19 happens: READ_DO was registered twice on controller OUT, a PING
\* handler was not, and the READ_DO received afterwards was answered by the
\* handler registered last
C19_Witness ==
    /\ regLog = <<<<CMD_READ_DO, "HandleReadDO">>, <<CMD_READ_DO, "HandleWriteDO">>>>
    /\ sent.kind = "plain"
    /\ sent.cmd = CMD_READ_DO
    /\ sent.dest = myAddress
    /\ rxLine = <<>>
    /\ Len(dispatchLog) = 1
    /\ dispatchLog[1].handler = "HandleWriteDO"
    /\ Len(txLog) = 1
    /\ SubSeq(txLog[1].buf, 4, 5) = <<CMD_DO_RESPONSE, 0>>
    /\ commandHandlers[CMD_PING] = "RS485_HandlePing"

\* C20: no step changes myAddress (received bytes, replies, calls of the
\* application, registrations, RS485_Process), and the source field of
\* every frame handed to the UART is myAddress.
C20_NodeIdentity ==
    [][/\ myAddress' = myAddress
       /\ \A i \in 1..Len(txLog') : txLog'[i].buf[3] = myAddress]_vars

\* C20 happens: controller DIO has sent a frame of its application and a
\* reply to a request, both with its address as the source
C20_Witness ==
    /\ myAddress = RS485_ADDR_CONTROLLER_DIO
    /\ sent.kind = "concurrent"
    /\ txJob.state = "returned"
    /\ rxLine = <<>>
    /\ Len(txLog) = 2
    /\ txLog[1].buf[3] = RS485_ADDR_CONTROLLER_DIO
    /\ txLog[2].buf[3] = RS485_ADDR_CONTROLLER_DIO
    /\ txLog[1].buf[4] # txLog[2].buf[4]

\* the value of x with its n bits in reverse order
RECURSIVE Reflect(_, _)
Reflect(x, n) == IF n = 0 THEN 0 ELSE 2^(n - 1) * (x % 2) + Reflect(x \div 2, n - 1)

\* one step of the CRC16 with polynomial 0x8005 in its unreflected form:
\* shift left, and subtract the polynomial when a one falls out
RECURSIVE Crc8005Bits(_, _)
Crc8005Bits(crc, j) ==
    IF j = 0 THEN crc
    ELSE LET next == IF crc >= 32768 THEN Xor16((2 * crc) % 65536, 32773)
                     ELSE 2 * crc
         IN  [c \in {next} |-> Crc8005Bits(c, j - 1)][next]

\* the reflected CRC16 (0x8005 reflected is 0xA001), initial value 0xFFFF, no
\* final XOR, by its definition: every input byte and the result are
\* bit-reversed around the unreflected CRC (each intermediate value is
\* passed on as a function argument, to keep the evaluation shallow)
RECURSIVE Crc8005(_, _)
Crc8005(data, crc) ==
    IF data = <<>> THEN crc
    ELSE LET next == Crc8005Bits(Xor16(crc, 256 * Reflect(Head(data), 8)), 8)
         IN  [c \in {next} |-> Crc8005(Tail(data), c)][next]
ReflectedCrc16(data) == Reflect(Crc8005(data, 65535), 16)

\* C21: RS485_CalculateCRC returns, for every byte sequence, a 16-bit value
\* equal to the reflected CRC16 with polynomial 0xA001, initial value 0xFFFF
\* and no final XOR: 0xFFFF for the empty sequence, 0x4B37 (the check value
\* of that CRC) for the digits "123456789".
C21_Crc16 ==
    crcResult # NoCrc
    => /\ crcResult \in 0..65535
       /\ crcResult = ReflectedCrc16(crcData)
       /\ crcData = <<>> => crcResult = 65535
       /\ crcData = CrcCheckInput => crcResult = 19255

\* C21 happens: the checksum of the nine digits was computed
C21_Witness ==
    /\ crcData = CrcCheckInput
    /\ crcResult = 19255

\* the value of the little-endian field of n bytes at offset k of a payload
RECURSIVE LittleEndian(_, _, _)
LittleEndian(payload, k, n) ==
    IF n = 0 THEN 0
    ELSE payload[k + 1] + 256 * LittleEndian(payload, k + 1, n - 1)

\* the payload of a transmitted frame
PayloadOf(buf) == SubSeq(buf, 6, Len(buf) - 3)

\* C22: every STATUS_RESPONSE the node transmits declares and carries
\* exactly 16 payload bytes: the node's address, its health, then, least
\* significant byte first, the 32-bit uptime, errorCount and rxPacketCount
\* (the request counted) and the 16-bit txPacketCount modulo 65536, as they
\* are when the request is handled.
C22_StatusLayout ==
    [][\A i \in (Len(txLog) + 1)..Len(txLog') :
         txLog'[i].buf[4] = CMD_STATUS_RESPONSE
         => LET buf == txLog'[i].buf
                payload == PayloadOf(buf)
            IN  /\ buf[5] = 16
                /\ Len(buf) = 16 + 8
                /\ payload[1] = myAddress
                /\ payload[2] = status.health
                /\ \A k \in 1..16 : payload[k] \in Byte
                /\ LittleEndian(payload, 2, 4) = status.uptime
                /\ LittleEndian(payload, 6, 4) = status.errorCount
                /\ LittleEndian(payload, 10, 4) = status.rxPacketCount + 1
                /\ LittleEndian(payload, 14, 2) = status.txPacketCount % 65536]_vars

\* C22 happens: a node with more than 65536 transmissions, and counters of
\* several bytes, has answered a GET_STATUS
C22_Witness ==
    /\ sent.cmd = CMD_GET_STATUS
    /\ base.txPacketCount > 65536
    /\ base.errorCount > 256
    /\ Len(txLog) = 1
    /\ txLog[1].buf[4] = CMD_STATUS_RESPONSE
    /\ txLog[1].buf[20] = 4
    /\ txLog[1].buf[21] = 2

\* C23: status.health is 100 in every reachable state, whatever bytes,
\* framing and checksum errors, transmit failures and RS485_Process calls
\* have occurred, and every HEARTBEAT_RESPONSE the node has transmitted
\* carries the payload [own address, 100].
C23_HealthConstant ==
    /\ status.health = 100
    /\ \A i \in 1..Len(txLog) :
         txLog[i].buf[4] = CMD_HEARTBEAT_RESPONSE
         => /\ txLog[i].buf[5] = 2
            /\ PayloadOf(txLog[i].buf) = <<myAddress, 100>>

\* C23 happens: a node that has counted an error and has run RS485_Process
\* with a nonzero uptime has answered a HEARTBEAT
C23_Witness ==
    /\ status.errorCount > 0
    /\ status.uptime > 0
    /\ \E i \in 1..Len(txLog) : txLog[i].buf[4] = CMD_HEARTBEAT_RESPONSE

\* frame has the end sentinel, a checksum field (low byte first) equal to
\* the CRC16 of its bytes between the start byte and the checksum, and the
\* node's address or the broadcast address as destination
WellFormedForUs(frame) ==
    LET n == Len(frame)
    IN  /\ frame[n] = RS485_END_BYTE
        /\ frame[n - 2] + 256 * frame[n - 1] = RS485_CalculateCRC(SubSeq(frame, 2, n - 3))
        /\ frame[2] \in {myAddress, RS485_ADDR_BROADCAST}

\* C24: whenever the receive path transmits, the byte it has just taken
\* completed a frame; a frame it transmits with a command other than
\* ERROR_RESPONSE answers a completed frame with the correct end sentinel,
\* a matching checksum and the node's address or broadcast as destination.
\* A byte that ends a frame with a wrong end sentinel, overflows the buffer
\* or arrives after the frame timeout causes no transmission.
C24_NoBogusSuccess ==
    [][(txJob' = txJob /\ Len(txLog') > Len(txLog))
       => /\ Len(frameLog') = Len(frameLog) + 1
          /\ frameLog'[Len(frameLog')][Len(frameLog'[Len(frameLog')])]
               = RS485_END_BYTE
          /\ (\E i \in (Len(txLog) + 1)..Len(txLog') :
                txLog'[i].buf[4] # CMD_ERROR_RESPONSE)
             => WellFormedForUs(frameLog'[Len(frameLog')])]_vars

\* C24 happens: a broadcast request was answered with a frame that is not an
\* ERROR_RESPONSE, and it was the only frame completed
C24_Witness ==
    /\ sent.kind = "plain"
    /\ sent.dest = RS485_ADDR_BROADCAST
    /\ Len(frameLog) = 1
    /\ Len(txLog) = 1
    /\ txLog[1].buf[4] # CMD_ERROR_RESPONSE

\* C25: RS485_SendPacket returns for every outcome of HAL_UART_Transmit: no
\* context is left spinning in the wait for the TC flag, and a call that is
\* executing in the main context always has a next statement it can take.
C25_SendReturns ==
    /\ tcWait = "none"
    /\ txJob.state = "running" => ENABLED SendPacketStep

\* C29: no counter update is lost: the step in which a main-context
\* RS485_SendPacket updates its counter and returns leaves the counter it
\* increments one above the value it had just before (whatever the receive
\* interrupt has added to it in the meantime) and the others unchanged, so
\* that txPacketCount counts the successful sends and errorCount the error
\* events.
C29_NoLostUpdate ==
    [][(txJob.state = "running" /\ txJob'.state = "returned")
       => IF txJob'.ret = "HAL_OK"
          THEN status' = [status EXCEPT !.txPacketCount = @ + 1]
          ELSE status' = [status EXCEPT !.errorCount = @ + 1]]_vars

\* C28: a send starts only while txInProgress is 0: the receive interrupt
\* transmits only from a state in which no call has the flag set, and the
\* main-context call sets the flag only when it is clear. Between the
\* setting and the clearing of the flag by the main-context call the only
\* buffer written to the UART is that call's own, once; the callback does
\* not run while the driver is enabled, and when it runs with the flag set
\* it leaves the framer, the counters and the line as they are.
C28_MutualExclusion ==
    [][/\ (txJob' = txJob /\ txLog' # txLog) => txInProgress = 0
       /\ (txJob.state = "running" /\ txJob.pc = 0 /\ txJob'.pc = 1)
          => txInProgress = 0 /\ txInProgress' = 1
       /\ (txInProgress = 1 /\ txLog' # txLog)
          => /\ txJob.state = "running"
             /\ txJob'.pc = txJob.pc + 1
             /\ txLog' = Append(txLog, [buf |-> txJob.txBuffer,
                                        result |-> txJob'.result])
       /\ comPin = "SET" => rxLine' = rxLine
       /\ (txInProgress = 1 /\ rxLine' # rxLine)
          => UNCHANGED <<status, packetBuffer, packetIndex, expectedLength,
                         frameLog, dispatchLog, txLog, txInProgress, comPin,
                         rxneIT>>]_vars

\* C28 happens: the receive interrupt has sent its reply after the
\* main-context call cleared txInProgress and before that call updated its
\* counter; the last byte of the request arrived in between
C28_Witness ==
    /\ sent.kind = "concurrent"
    /\ txJob.state = "running"
    /\ txJob.pc = 10
    /\ Len(txLog) = 2
    /\ txLog[1].buf = txJob.txBuffer
    /\ opLog[10].rxLeft = 1

\* an RS485_SendPacket call is executing: the application's, or one made by
\* a handler that has not come back from the wait for the TC flag
CallExecuting == txJob.state = "running" \/ tcWait # "none"

\* C30: in every reachable state in which no RS485_SendPacket call is
\* executing, txInProgress is 0, the driver-enable pin is RESET and the
\* receive interrupt is unmasked; the driver-enable pin is SET only while
\* txInProgress is 1.
C30_DirectionInvariant ==
    /\ ~CallExecuting => (txInProgress = 0 /\ comPin = "RESET" /\ rxneIT)
    /\ comPin = "SET" => txInProgress = 1

\* C30 happens: the application's call has returned a failure and the
\* interrupt has sent a reply, and the line is in receive mode
C30_Witness ==
    /\ sent.kind = "concurrent"
    /\ txJob.state = "returned"
    /\ txJob.ret = "HAL_BUSY"
    /\ Len(txLog) = 2
    /\ txInProgress = 0
    /\ comPin = "RESET"
    /\ rxneIT

\* C26: a node that has received a valid ERROR_RESPONSE (0xFF) frame
\* addressed to it has not answered it, so that the chain of frames a single
\* frame triggers on a bus of such nodes ends.
C26_NoErrorCascade ==
    (StreamDone /\ sent.kind = "plain" /\ sent.pre = <<>>
        /\ sent.cmd = CMD_ERROR_RESPONSE /\ sent.dest = myAddress
        /\ frameLog = <<sent.frame>>)
    => txLog = <<>>

\* C27: on a bus with two nodes and a master that sends one frame and
\* waits, the two nodes never have their driver-enable pin SET at the same
\* time, whatever frame the master sent.
C27_NoBusCollision ==
    HasPeer => ~(comPin = "SET" /\ peer.comPin = "SET")

\* C31: the dispatch of a frame and the transmission of its answer happen
\* in the step that takes the byte completing the frame; when that step is
\* over the answer has been handed to the UART, the line is back in
\* receive mode and the framer is Idle, and while the answer's RS485_SendPacket
\* has not returned no further byte is taken.
C31_UnbrokenCycle ==
    [][/\ (dispatchLog' # dispatchLog \/ (txLog' # txLog /\ txJob' = txJob))
          => /\ Len(frameLog') = Len(frameLog) + 1
             /\ Len(rxLine') = Len(rxLine) - 1
       /\ (frameLog' # frameLog /\ tcWait' = "none")
          => /\ packetIndex' = 0 /\ expectedLength' = 0 /\ packetBuffer' = <<>>
             /\ txInProgress' = txInProgress /\ comPin' = comPin
             /\ rxneIT' = rxneIT
       /\ tcWait = "isr" => rxLine' = rxLine]_vars

\* C31 happens: two requests arrived back to back, and both were answered
C31_Witness ==
    /\ sent.kind = "pair"
    /\ rxLine = <<>>
    /\ Len(frameLog) = 2
    /\ Len(txLog) = 2
    /\ packetIndex = 0

\* the callback hands the next byte to the framer in this step
ByteProcessed == rxLine # <<>> /\ rxLine' = Tail(rxLine) /\ txInProgress = 0

C33_PositionalFraming ==
    [][(ByteProcessed /\ packetIndex > 0 /\ NextGap <= 500)
       => LET buf == Append(packetBuffer, Head(rxLine))
              n == Len(buf)
          IN  IF n >= 8 /\ n = 8 + buf[5]
              THEN frameLog' = Append(frameLog, buf)
              ELSE /\ UNCHANGED <<frameLog, dispatchLog, txLog>>
                   /\ IF n = RS485_MAX_PACKET_SIZE
                      THEN packetIndex' = 0
                      ELSE packetBuffer' = buf /\ packetIndex' = n]_vars

\* a frame with 0x55 as source, 0xAA as command, 0x55 as length and the
\* payload 0x55, 0xAA, ... was taken in whole and dispatched
C33_Witness ==
    /\ sent.kind = "plain" /\ sent.src = RS485_END_BYTE
    /\ sent.cmd = RS485_START_BYTE /\ Len(sent.data) = RS485_END_BYTE
    /\ rxLine = <<>> /\ frameLog = <<sent.frame>>
    /\ Len(dispatchLog) = 1

\* a frame whose low checksum byte is 0x55 was taken in whole
C33_WitnessChecksum ==
    /\ sent.kind = "plain" /\ Len(sent.frame) = 8 /\ sent.frame[6] = RS485_END_BYTE
    /\ sent.frame[4] # RS485_START_BYTE
    /\ rxLine = <<>> /\ frameLog = <<sent.frame>> /\ Len(dispatchLog) = 1

\* the framer is Idle after every completing byte whose processing has
\* ended, takes only 0xAA while Idle, and between calls holds fewer bytes
\* than 256 and than 8 + expectedLength
IdleAfterReturn ==
    [][/\ (ByteProcessed /\ frameLog' # frameLog /\ tcWait' = "none")
          => packetIndex' = 0 /\ expectedLength' = 0 /\ packetBuffer' = <<>>
       /\ (ByteProcessed /\ packetIndex = 0)
          => packetBuffer' = (IF Head(rxLine) = RS485_START_BYTE
                              THEN <<RS485_START_BYTE>> ELSE <<>>)
       /\ tcWait' # "isr"
          => /\ packetIndex' < RS485_MAX_PACKET_SIZE
             /\ packetIndex' < 8 + expectedLength']_vars

\* C34: after the byte that brings the count to 8 + length the framer is
\* Idle whatever became of the frame: packetIndex and expectedLength are 0,
\* the buffer holds nothing of the finished frame, and the next byte is
\* taken only if it is 0xAA; between calls packetIndex is below 256 and
\* below 8 + expectedLength.
C34_ReturnsToIdle ==
    [][/\ (ByteProcessed /\ frameLog' # frameLog)
          => packetIndex' = 0 /\ expectedLength' = 0 /\ packetBuffer' = <<>>
       /\ (ByteProcessed /\ packetIndex = 0)
          => packetBuffer' = (IF Head(rxLine) = RS485_START_BYTE
                              THEN <<RS485_START_BYTE>> ELSE <<>>)
       /\ tcWait' # "isr"
          => /\ packetIndex' < RS485_MAX_PACKET_SIZE
             /\ packetIndex' < 8 + expectedLength']_vars

\* C35: a call of RS485_SendPacket with a length above 250 returns
\* HAL_ERROR and changes nothing else: no byte goes to the UART,
\* txInProgress, the driver-enable pin and the receive-interrupt mask keep
\* their values, no statement of the send sequence runs, and txPacketCount
\* and errorCount (the whole status) are as before.
C35_OversizedRejected ==
    [][(txJob.state = "none" /\ txJob'.state # "none"
        /\ txJob'.call.length > MAX_DATA_LENGTH)
       => /\ txJob'.state = "returned" /\ txJob'.ret = "HAL_ERROR"
          /\ txJob'.txBuffer = <<>> /\ opLog' = <<>>
          /\ UNCHANGED <<txLog, txInProgress, comPin, rxneIT, status,
                         packetBuffer, packetIndex, expectedLength>>]_vars

\* the application called RS485_SendPacket with 251 bytes and got HAL_ERROR
C35_Witness ==
    /\ txJob.state = "returned" /\ txJob.call.length = MAX_DATA_LENGTH + 1
    /\ txJob.ret = "HAL_ERROR" /\ txLog = <<>> /\ status = base
    /\ txInProgress = 0 /\ comPin = "RESET" /\ rxneIT

\* C36: rxPacketCount goes up by one in the step that takes the last byte
\* of a frame with the correct end sentinel, a matching checksum and the
\* node's address or broadcast as destination, with or without a handler
\* for its command, and in no other step; the handler sees the count with
\* its own request included (the STATUS_RESPONSE carries it).
C36_RxAccounting ==
    [][/\ status'.rxPacketCount
            = status.rxPacketCount
              + (IF /\ ByteProcessed
                    /\ Len(frameLog') = Len(frameLog) + 1
                    /\ WellFormedForUs(frameLog'[Len(frameLog')])
                 THEN 1 ELSE 0)
       /\ \A i \in (Len(txLog) + 1)..Len(txLog') :
            (txJob' = txJob /\ txLog'[i].buf[4] = CMD_STATUS_RESPONSE)
            => LittleEndian(PayloadOf(txLog'[i].buf), 10, 4)
                 = status.rxPacketCount + 1]_vars

\* a request for this node with no handler registered was counted and
\* answered with an ERROR_RESPONSE
C36_Witness ==
    /\ sent.kind = "plain" /\ sent.dest = myAddress /\ sent.cmd = CMD_READ_DI
    /\ rxLine = <<>> /\ Len(dispatchLog) = 1
    /\ dispatchLog[1].handler = NoHandler
    /\ status.rxPacketCount = base.rxPacketCount + 1
    /\ Len(txLog) = 1 /\ txLog[1].buf[4] = CMD_ERROR_RESPONSE

\* the errors the receive side counts for the byte taken in this step: one
\* when the byte completes a frame whose last byte is not 0x55 or whose
\* checksum does not match, one when it is the 256th byte of a frame that
\* is not complete, none otherwise
RxErrors ==
    IF Len(frameLog') = Len(frameLog) + 1
    THEN LET frame == frameLog'[Len(frameLog')]
             n == Len(frame)
         IN  IF frame[n] # RS485_END_BYTE THEN 1
             ELSE IF frame[n - 2] + 256 * frame[n - 1]
                     # RS485_CalculateCRC(SubSeq(frame, 2, n - 3))
             THEN 1 ELSE 0
    ELSE IF packetIndex = RS485_MAX_PACKET_SIZE - 1 /\ NextGap <= 500
    THEN 1 ELSE 0

\* the errors the transmit side counts in this step: one for a reply whose
\* HAL_UART_Transmit did not return HAL_OK, once the send has returned
TxErrors ==
    IF /\ tcWait' = "none" /\ Len(txLog') = Len(txLog) + 1
       /\ txLog'[Len(txLog')].result # "HAL_OK"
    THEN 1 ELSE 0

\* C37: a byte taken by the framer raises errorCount by one when it ends a
\* frame that is discarded for a wrong end sentinel, for a checksum mismatch
\* or for filling the buffer, by one more when the reply it causes fails to
\* transmit, and by nothing else: no byte is counted by both the completion
\* branch and the overflow guard, a frame of exactly 256 bytes included.
C37_ErrorOnce ==
    [][ByteProcessed
       => status'.errorCount = status.errorCount + RxErrors + TxErrors]_vars

\* a frame of exactly 256 bytes with a wrong last byte was discarded and
\* counted once
C37_Witness ==
    /\ sent.kind = "badEnd" /\ Len(sent.frame) = RS485_MAX_PACKET_SIZE
    /\ rxLine = <<>> /\ frameLog = <<sent.frame>>
    /\ status.errorCount = base.errorCount + 1 /\ packetIndex = 0

\* the step took a byte that met a partial frame and threw the partial
\* frame away: the byte was handled as in Idle
PartialDiscarded ==
    /\ ByteProcessed /\ packetIndex > 0
    /\ frameLog' = frameLog
    /\ packetIndex < RS485_MAX_PACKET_SIZE - 1
    /\ packetIndex' = (IF Head(rxLine) = RS485_START_BYTE THEN 1 ELSE 0)

\* C38: a byte that meets a partial frame discards it exactly when more
\* than 500 ms have passed since the previous byte, whatever the values of
\* the 32-bit tick at the two bytes: also when the tick wrapped from near
\* 2^32 to near 0 between them.
C38_TickWrap ==
    [][(ByteProcessed /\ packetIndex > 0)
       => (PartialDiscarded <=> NextGap > 500)]_vars

\* the tick wrapped between the first and the second byte of a frame, 500 ms
\* apart, and the frame was kept
C38_Witness ==
    /\ sent.kind = "plain" /\ sent.gap = FRAME_TIMEOUT_MS
    /\ tick = Tick32(0, 300) /\ lastByteTime = tick
    /\ packetIndex = 2 /\ packetBuffer = SubSeq(sent.frame, 1, 2)

\* the tick wrapped during a pause of 501 ms after a start sentinel, and the
\* partial frame was discarded: the frame that followed was dispatched
C38_WitnessDiscard ==
    /\ sent.kind = "plain" /\ sent.pre = <<RS485_START_BYTE>>
    /\ sent.pause = FRAME_TIMEOUT_MS + 1
    /\ tick = Tick32(0, 301) /\ rxLine = <<>>
    /\ frameLog = <<sent.frame>> /\ Len(dispatchLog) = 1

\* C39: given the same node address, handlers and inputs, the struct-cast
\* variant and the explicit-serialisation variant hand the same bytes to
\* the UART and decide alike on every frame (checksum error, not for this
\* node, dispatched, no handler): in particular both put CRC low, CRC high
\* and 0x55 at offsets 5+N, 6+N, 7+N and read the received CRC from 5+N, 6+N.
C39_VariantEquivalence ==
    /\ anaOut.verdict = castOut.verdict
    /\ anaOut.tx = castOut.tx

=============================================================================
